---- MODULE Spec2Model ----
(***************************************************************************)
(* A model of the query-answering pipeline of ragbot (src/ragbot/api):     *)
(* the MMR reranker (rerank.py), the aggregation planner (agg_planner.py), *)
(* the retriever (retrieve.py, elastic.py), the chat handler with its      *)
(* streamed response (server.py, answer.py, openai_client.py, prompts.py)  *)
(* the context packer (pack.py) and the prompt with the conversation       *)
(* history (prompts.py).                                                   *)
(*                                                                         *)
(* Each component has its own specification (SpecRerank, SpecPlanner,      *)
(* SpecRetrieve, SpecChat, SpecPack, SpecHistory): Init draws the inputs   *)
(* of one call from bounded sets and the actions are the steps of the      *)
(* call.  The variables of the other components stay at their idle values; *)
(* the chat handler calls rerank, so SpecChat runs the steps of rerank too. *)
(***************************************************************************)
EXTENDS Integers, Sequences, FiniteSets, TLC

VARIABLES
    \* rerank(query_vector, docs, lambda_mult, top_k)
    rk_pc,          \* "idle" | "start" | "loop" | "done" | "raised"
    query_vector,   \* the query embedding
    docs,           \* the records; a record has the key "embedding" or not
    lambda_mult,    \* lambda, in units of 1/LambdaDen
    top_k,
    selected,       \* rerank's list `selected` (positions, in pick order)
    remaining,      \* rerank's set `remaining`
    reranked,       \* the returned list
    \* plan_and_run(query): plan_aggregation, then run_aggregation
    pl_pc,          \* "idle" | "start" | "parse" | "validate" | "planned"
                    \*   | "search" | "done" | "raised"
    gen_value,      \* what the model meant to write (a JSON value or not)
    gen_wrap,       \* how the model wrapped it
    out_any,        \* what chat_completion returned
    out_str,        \* plan_aggregation's out_str
    parsed,         \* the value of _parse_json(out_str)
    plan,           \* what plan_aggregation returned (JNull: None)
    searches,       \* the bodies of the es.search calls of run_aggregation
    attempts,       \* how often the client sent the search request
    search_error,   \* the error of the last attempt, "" for none
    agg_result,     \* what plan_and_run returned (JNull: None)
    \* retrieve(query, top_k)
    rt_pc,          \* "idle" | "start" | "collect" | "done"
    index,          \* the documents of the index, by identifier
    rt_top_k,       \* retrieve's top_k
    resp_hits,      \* resp["hits"]["hits"] of the store's response
    results,        \* retrieve's list `results`
    \* chat(payload) and the generator stream() of its response
    ch_pc,          \* "idle" | "start" | "retrieve" | "embed" | "rerank"
                    \*   | "reranking" | "prompt" | "respond" | "unstarted"
                    \*   | "reading" | "yielded" | "done" | "rejected"
                    \*   | "error" | "broken" | "closed"
    payload,        \* the body of the request
    stages,         \* the calls the handler has made, in order
    failure,        \* the downstream call that failed, "" for none
    store_hits,     \* the hits of the store's response to retrieve
    initial_docs,   \* what retrieve returned
    qvec,           \* what embed_text returned
    messages,       \* what build_answer_prompt returned
    http_status,    \* the status of the response, 0 before there is one
    gen_conn,       \* the connection of _chat_stream: "none" | "open" | "closed"
    produced,       \* the events read from the Generation Service so far
    pending,        \* the token stream() has yielded and the caller has not got
    delivered,      \* the tokens sent to the caller
    chars,          \* stream()'s counter
    stream_end_logged,  \* whether line 86 has logged the end of the stream
    caller,         \* "connected" | "disconnected"
    \* compact_docs(docs)
    pk_pc,          \* "idle" | "loop" | "done"
    pk_docs,        \* the records
    pk_i,           \* how many records the loop has consumed
    compact,        \* compact_docs's list `compact`
    \* build_answer_prompt(query, passages, history) and _format_history
    hs_pc,          \* "idle" | "loop" | "return" | "done"
    history,        \* the turns of the conversation, oldest first
    hs_i,           \* how many turns the loop has consumed
    hs_lines,       \* _format_history's list `lines`
    history_str,    \* what _format_history returned
    user_turn       \* the content of the user message of the prompt

rerankVars == <<rk_pc, query_vector, docs, lambda_mult, top_k, selected,
                remaining, reranked>>

plannerVars == <<pl_pc, gen_value, gen_wrap, out_any, out_str, parsed, plan,
                 searches, attempts, search_error, agg_result>>

retrieveVars == <<rt_pc, index, rt_top_k, resp_hits, results>>

chatVars == <<ch_pc, payload, stages, failure, store_hits, initial_docs, qvec, messages,
              http_status, gen_conn, produced, pending, delivered, chars,
              stream_end_logged, caller>>

packVars == <<pk_pc, pk_docs, pk_i, compact>>

historyVars == <<hs_pc, history, hs_i, hs_lines, history_str, user_turn>>

vars == <<rerankVars, plannerVars, retrieveVars, chatVars, packVars,
          historyVars>>

\* What a step of one component leaves alone.
otherThanRerank == <<plannerVars, retrieveVars, chatVars, packVars, historyVars>>
otherThanPlanner == <<rerankVars, retrieveVars, chatVars, packVars, historyVars>>
otherThanRetrieve == <<rerankVars, plannerVars, chatVars, packVars, historyVars>>
otherThanChat == <<plannerVars, retrieveVars, packVars, historyVars>>
otherThanPack == <<rerankVars, plannerVars, retrieveVars, chatVars, historyVars>>
otherThanHistory == <<rerankVars, plannerVars, retrieveVars, chatVars, packVars>>

----------------------------------------------------------------------------
(* Generic helpers *)

Range(s) == {s[i] : i \in 1..Len(s)}

Min2(a, b) == IF a <= b THEN a ELSE b

SetMin(S) == CHOOSE x \in S : \A y \in S : x <= y

\* The elements of a finite set of integers in ascending order.
RECURSIVE Ascending(_)
Ascending(S) ==
    IF S = {} THEN <<>>
    ELSE LET m == SetMin(S) IN <<m>> \o Ascending(S \ {m})

SeqsUpTo(S, n) == UNION {[1..k -> S] : k \in 0..n}

----------------------------------------------------------------------------
(* rerank.py *)

\* Bounds of the rerank inputs.
MaxDocs == 3
MaxTopK == 4

\* Embeddings are float32 vectors of one fixed dimension.  The vectors used
\* here have norm 0, 1 or 2, so every cosine is a multiple of 1/4 and every
\* float32/float64 operation of rerank on them is exact.
ZeroVec == <<0, 0, 0, 0>>
Vectors == { ZeroVec, <<1, 1, 1, 1>>, <<1, 1, -1, -1>>, <<1, 1, 1, -1>> }
QueryVectors == { <<1, 1, 1, 1>>, <<2, 0, 0, 0>>, <<-1, -1, -1, -1>> }

\* Similarities are kept in units of 1/SimScale, lambda in units of
\* 1/LambdaDen, scores in units of 1/(SimScale*LambdaDen).
SimScale == 2 * 2
LambdaDen == 2 * 2
Lambdas == {0, 2, 3, LambdaDen}

\* A record of the list `docs`: a mapping that has the key "embedding" or
\* does not have it.
NoEmbeddingDoc == [k \in {} |-> <<>>]
DocValues == {NoEmbeddingDoc} \cup
             {[embedding |-> e] : e \in Vectors \cup {<<>>}}

\* d.get("embedding", [])
Embedding(d) == IF "embedding" \in DOMAIN d THEN d["embedding"] ELSE <<>>

\* embeddings[i]
embeddings(i) == Embedding(docs[i])

RECURSIVE Dot(_, _)
Dot(a, b) ==
    IF Len(a) = 0 \/ Len(b) = 0 THEN 0
    ELSE Head(a) * Head(b) + Dot(Tail(a), Tail(b))

\* np.linalg.norm, exact on the vectors above (and 0 on the empty vector).
Norm(a) == CHOOSE n \in 0..(Dot(a, a) + 1) : n * n = Dot(a, a)

\* Variant of CosineRaises: no zero-denominator return, so a zero
\* denominator is divided by.
CosineRaisesNoZeroCheck(a, b) == Norm(a) * Norm(b) = 0 \/ Len(a) # Len(b)

\* Whether _cosine_similarity(a, b) raises: np.dot rejects operands of
\* different shapes, once the zero-denominator return is passed.
CosineRaises(a, b) == Norm(a) * Norm(b) # 0 /\ Len(a) # Len(b)

\* _cosine_similarity(a, b), in units of 1/SimScale.
_cosine_similarity(a, b) ==
    LET denom == Norm(a) * Norm(b) IN
    IF denom = 0 THEN 0 ELSE (Dot(a, b) * SimScale) \div denom

\* sim_to_query[i]
sim_to_query(i) ==
    IF Len(embeddings(i)) > 0
    THEN _cosine_similarity(query_vector, embeddings(i))
    ELSE 0

\* The generator element for the pair (i, j) in max_sim_selected.
PairSim(i, j) ==
    IF Len(embeddings(i)) > 0 /\ Len(embeddings(j)) > 0
    THEN _cosine_similarity(embeddings(i), embeddings(j))
    ELSE 0

\* Whether building sim_to_query, or the pair similarities of a step, raises.
SimToQueryRaises ==
    \E i \in 1..Len(docs) :
        Len(embeddings(i)) > 0 /\ CosineRaises(query_vector, embeddings(i))

PairSimRaises(sel, rem) ==
    \E i \in rem : \E j \in Range(sel) :
        /\ Len(embeddings(i)) > 0
        /\ Len(embeddings(j)) > 0
        /\ CosineRaises(embeddings(i), embeddings(j))

\* max(... for j in selected) if selected else 0.0
max_sim_selected(i, sel) ==
    IF sel = <<>> THEN 0
    ELSE LET S == {PairSim(i, j) : j \in Range(sel)}
         IN  CHOOSE m \in S : \A x \in S : x <= m

\* score = lambda_mult * sim_to_query[i] - (1 - lambda_mult) * max_sim_selected
score(i, sel) ==
    lambda_mult * sim_to_query(i)
      - (LambdaDen - lambda_mult) * max_sim_selected(i, sel)

\* best_score = -1e9: below every score (kept in score units).
InitialBestScore == -1000000000

\* Variant of Argmax: the last position of the maximum.
ArgmaxLast ==
    LET n == Len(docs) IN
    CHOOSE i \in 1..n :
        /\ \A j \in 1..n : sim_to_query(j) <= sim_to_query(i)
        /\ \A j \in (i+1)..n : sim_to_query(j) < sim_to_query(i)

\* int(np.argmax(sim_to_query)): the first position of the maximum, over all
\* positions of docs.
Argmax ==
    LET n == Len(docs) IN
    CHOOSE i \in 1..n :
        /\ \A j \in 1..n : sim_to_query(j) <= sim_to_query(i)
        /\ \A j \in 1..(i-1) : sim_to_query(j) < sim_to_query(i)

\* Variant of BestOfLoop: `score >= best_score`, the last of equal scores.
RECURSIVE BestOfLoopTakesTies(_, _, _)
BestOfLoopTakesTies(order, sel, best) ==
    IF order = <<>> THEN best
    ELSE LET i == Head(order)
             s == score(i, sel)
         IN  IF s >= best[2]
             THEN BestOfLoopTakesTies(Tail(order), sel, <<i, s>>)
             ELSE BestOfLoopTakesTies(Tail(order), sel, best)

\* The loop `for i in list(remaining)`: order is the iteration order, best is
\* <<best_idx, best_score>> so far (best_idx 0 stands for None).  CPython
\* iterates a set of small non-negative integers built from range(n) in
\* ascending order, also after removals.
RECURSIVE BestOfLoop(_, _, _)
BestOfLoop(order, sel, best) ==
    IF order = <<>> THEN best
    ELSE LET i == Head(order)
             s == score(i, sel)
         IN  IF s > best[2]
             THEN BestOfLoop(Tail(order), sel, <<i, s>>)
             ELSE BestOfLoop(Tail(order), sel, best)

\* while remaining and len(selected) < top_k
LoopGuard == remaining # {} /\ Len(selected) < top_k

\* Variant of RemovePicked: the picked position stays in `remaining`.
RemoveNothing(rem, idx) == rem

\* remaining.remove(idx) after selected.append(idx)
RemovePicked(rem, idx) == rem \ {idx}

RerankInit ==
    /\ rk_pc = "start"
    /\ query_vector \in QueryVectors
    /\ docs \in SeqsUpTo(DocValues, MaxDocs)
    /\ lambda_mult \in Lambdas
    /\ top_k \in 0..MaxTopK
    /\ selected = <<>>
    /\ remaining = {}
    /\ reranked = <<>>

RerankIdle ==
    /\ rk_pc = "idle"
    /\ query_vector = ZeroVec
    /\ docs = <<>>
    /\ lambda_mult = 0
    /\ top_k = 0
    /\ selected = <<>>
    /\ remaining = {}
    /\ reranked = <<>>

\* if not docs: return []
RerankEmpty ==
    /\ rk_pc = "start"
    /\ docs = <<>>
    /\ rk_pc' = "done"
    /\ reranked' = <<>>
    /\ UNCHANGED <<query_vector, docs, lambda_mult, top_k, selected, remaining>>
    /\ UNCHANGED otherThanRerank

\* Lines 17-24: the arrays, selected, remaining and sim_to_query.
RerankSetup ==
    /\ rk_pc = "start"
    /\ docs # <<>>
    /\ IF SimToQueryRaises
       THEN /\ rk_pc' = "raised"
            /\ UNCHANGED <<selected, remaining>>
       ELSE /\ rk_pc' = "loop"
            /\ selected' = <<>>
            /\ remaining' = 1..Len(docs)
    /\ UNCHANGED <<query_vector, docs, lambda_mult, top_k, reranked>>
    /\ UNCHANGED otherThanRerank

\* Lines 27-31: the first pick.
RerankFirstPick ==
    /\ rk_pc = "loop"
    /\ LoopGuard
    /\ selected = <<>>
    /\ selected' = Append(selected, Argmax)
    /\ remaining' = RemovePicked(remaining, Argmax)
    /\ UNCHANGED <<rk_pc, query_vector, docs, lambda_mult, top_k, reranked>>
    /\ UNCHANGED otherThanRerank

\* Lines 32-51: a later pick.
RerankNextPick ==
    /\ rk_pc = "loop"
    /\ LoopGuard
    /\ selected # <<>>
    /\ IF PairSimRaises(selected, remaining)
       THEN /\ rk_pc' = "raised"
            /\ UNCHANGED <<selected, remaining, reranked>>
       ELSE LET best == BestOfLoop(Ascending(remaining), selected,
                                   <<0, InitialBestScore>>)
            IN  IF best[1] = 0
                THEN \* if best_idx is None: break
                     /\ rk_pc' = "done"
                     /\ reranked' = [k \in 1..Len(selected) |-> docs[selected[k]]]
                     /\ UNCHANGED <<selected, remaining>>
                ELSE /\ selected' = Append(selected, best[1])
                     /\ remaining' = RemovePicked(remaining, best[1])
                     /\ UNCHANGED <<rk_pc, reranked>>
    /\ UNCHANGED <<query_vector, docs, lambda_mult, top_k>>
    /\ UNCHANGED otherThanRerank

\* Line 53: return [docs[i] for i in selected]
RerankReturn ==
    /\ rk_pc = "loop"
    /\ ~LoopGuard
    /\ rk_pc' = "done"
    /\ reranked' = [k \in 1..Len(selected) |-> docs[selected[k]]]
    /\ UNCHANGED <<query_vector, docs, lambda_mult, top_k, selected, remaining>>
    /\ UNCHANGED otherThanRerank

RerankNext ==
    \/ RerankEmpty
    \/ RerankSetup
    \/ RerankFirstPick
    \/ RerankNextPick
    \/ RerankReturn

----------------------------------------------------------------------------
(* Properties of rerank *)

NoEmbedding(i) == Len(embeddings(i)) = 0

\* C1: in every state of a rerank call no record position is selected twice,
\* the positions are positions of docs, at most min(top_k, len(docs)) are
\* selected, the returned list is docs at the selected positions, and an
\* empty record list returns the empty list without an error.
C1_NoDuplicatesBoundedLength ==
    /\ rk_pc # "raised"
    /\ \A a, b \in 1..Len(selected) : a # b => selected[a] # selected[b]
    /\ Range(selected) \subseteq 1..Len(docs)
    /\ Len(selected) <= Min2(top_k, Len(docs))
    /\ rk_pc = "done" =>
          /\ Len(reranked) = Len(selected)
          /\ \A k \in 1..Len(reranked) : reranked[k] = docs[selected[k]]
    /\ (docs = <<>> /\ rk_pc # "start") => (rk_pc = "done" /\ reranked = <<>>)

\* A call that returned top_k records out of more, two of them equal records.
C1_Witness ==
    /\ rk_pc = "done"
    /\ Len(docs) = 3
    /\ top_k = 2
    /\ Len(reranked) = 2
    /\ reranked[1] = reranked[2]

\* Position a comes before position b in the stable descending order of the
\* similarities to the query.
RanksBefore(a, b) ==
    \/ sim_to_query(a) > sim_to_query(b)
    \/ (sim_to_query(a) = sim_to_query(b) /\ a < b)

\* C2: with lambda = 1 the returned positions are the first min(top_k, n)
\* positions of docs in descending order of similarity to the query, equal
\* similarities in input order.
C2_LambdaOneIsRelevanceOrder ==
    (rk_pc = "done" /\ lambda_mult = LambdaDen) =>
        /\ Len(selected) = Min2(top_k, Len(docs))
        /\ \A k \in 1..(Len(selected) - 1) :
               RanksBefore(selected[k], selected[k + 1])
        /\ \A k \in 1..Len(selected) :
               \A j \in (1..Len(docs)) \ Range(selected) :
                   RanksBefore(selected[k], j)

\* A lambda = 1 call over three records where the order differs from the
\* input order and two similarities are equal.
C2_Witness ==
    /\ rk_pc = "done"
    /\ lambda_mult = LambdaDen
    /\ Len(docs) = 3
    /\ selected = <<3, 1, 2>>
    /\ sim_to_query(1) = sim_to_query(2)

\* C3: a record whose embedding is absent or empty has similarity 0 to the
\* query and to every other record, so its score against every prefix of
\* the selected records is 0, and no rerank call raises, whatever the mix of
\* records with and without embeddings.
C3_NoEmbeddingIsSimilarityZero ==
    /\ rk_pc # "raised"
    /\ \A i \in 1..Len(docs) :
          NoEmbedding(i) =>
              /\ sim_to_query(i) = 0
              /\ \A j \in 1..Len(docs) : PairSim(i, j) = 0 /\ PairSim(j, i) = 0
              /\ \A k \in 0..Len(selected) :
                    score(i, SubSeq(selected, 1, k)) = 0

\* A finished call over a record without the key, a record with an empty
\* embedding, a zero vector and a unit vector, in which a record without an
\* embedding was scored against selected records and picked.
C3_Witness ==
    /\ rk_pc = "done"
    /\ Len(docs) = 3
    /\ \E i, j, k \in 1..3 :
          /\ docs[i] = NoEmbeddingDoc
          /\ docs[j] = [embedding |-> <<>>]
          /\ docs[k] \notin {NoEmbeddingDoc, [embedding |-> <<>>],
                             [embedding |-> ZeroVec]}
    /\ Len(selected) = 3
    /\ NoEmbedding(selected[3])

----------------------------------------------------------------------------
(* agg_planner.py: texts, json.loads and the JSON extraction *)

\* A text is a sequence of one-character strings.  The characters that occur
\* are the JSON punctuation, the double quote, the backtick, space and
\* newline, digits and letters; no backslash occurs, so a JSON string has no
\* escapes.
Whitespace == {" ", "\n"}
DigitChars == {"0", "1", "2", "3", "4", "5", "6", "7", "8", "9"}
Quote == "\""

\* A Python value read from JSON.  None is JNull.
JNull == [t |-> "null"]
JBool(b) == [t |-> "bool", b |-> b]
JNum(n) == [t |-> "num", n |-> n]
JStr(s) == [t |-> "str", s |-> s]
JArr(items) == [t |-> "arr", items |-> items]
\* A dict: its <<key, value>> pairs in insertion order, keys distinct.
JObj(kv) == [t |-> "obj", kv |-> kv]

\* key in d
HasKey(d, key) == \E i \in 1..Len(d.kv) : d.kv[i][1] = key

\* d[key]
Lookup(d, key) == d.kv[CHOOSE i \in 1..Len(d.kv) : d.kv[i][1] = key][2]

\* d[key] = value on the pair list of a dict
DictSet(kv, key, value) ==
    IF \E i \in 1..Len(kv) : kv[i][1] = key
    THEN [i \in 1..Len(kv) |->
             IF kv[i][1] = key THEN <<key, value>> ELSE kv[i]]
    ELSE Append(kv, <<key, value>>)

\* Python truth value of a value read from JSON: `not v`
Falsy(v) ==
    CASE v.t = "null" -> TRUE
      [] v.t = "bool" -> ~v.b
      [] v.t = "num"  -> v.n = 0
      [] v.t = "str"  -> v.s = <<>>
      [] v.t = "arr"  -> v.items = <<>>
      [] v.t = "obj"  -> v.kv = <<>>

\* The result of a scan: ok is FALSE when the decoder raises.
ScanFail == [ok |-> FALSE, val |-> JNull, pos |-> 0]
ScanOk(v, p) == [ok |-> TRUE, val |-> v, pos |-> p]

HasAt(s, i, w) ==
    /\ i >= 1
    /\ i + Len(w) - 1 <= Len(s)
    /\ SubSeq(s, i, i + Len(w) - 1) = w

\* The first position at or after i that holds no whitespace (Len(s)+1 at
\* the end).
RECURSIVE SkipWS(_, _)
SkipWS(s, i) ==
    IF i <= Len(s) /\ s[i] \in Whitespace THEN SkipWS(s, i + 1) ELSE i

\* str.strip()
RECURSIVE StripRight(_)
StripRight(s) ==
    IF s # <<>> /\ s[Len(s)] \in Whitespace
    THEN StripRight(SubSeq(s, 1, Len(s) - 1))
    ELSE s

Strip(s) == StripRight(SubSeq(s, SkipWS(s, 1), Len(s)))

\* json.decoder.scanstring from the character after the opening quote: ends
\* at the next quote; a control character (newline) inside a string, or no
\* closing quote, is an error.
RECURSIVE ScanString(_, _, _)
ScanString(s, i, acc) ==
    IF i > Len(s) THEN ScanFail
    ELSE IF s[i] = Quote THEN ScanOk(JStr(acc), i + 1)
    ELSE IF s[i] = "\n" THEN ScanFail
    ELSE ScanString(s, i + 1, Append(acc, s[i]))

DigitValue(c) ==
    CASE c = "0" -> 0 [] c = "1" -> 1 [] c = "2" -> 2 [] c = "3" -> 3
      [] c = "4" -> 4 [] c = "5" -> 5 [] c = "6" -> 6 [] c = "7" -> 7
      [] c = "8" -> 8 [] c = "9" -> 9

\* The digits of [1-9]\d* from position i, with the value read so far.
RECURSIVE ScanDigits(_, _, _)
ScanDigits(s, i, n) ==
    IF i <= Len(s) /\ s[i] \in DigitChars
    THEN ScanDigits(s, i + 1, 10 * n + DigitValue(s[i]))
    ELSE ScanOk(JNum(n), i)

\* NUMBER_RE, integers only: -?(?:0|[1-9]\d*)
ScanNumber(s, i) ==
    LET neg == s[i] = "-"
        j == IF neg THEN i + 1 ELSE i
    IN  IF j > Len(s) \/ s[j] \notin DigitChars THEN ScanFail
        ELSE LET r == IF s[j] = "0" THEN ScanOk(JNum(0), j + 1)
                      ELSE ScanDigits(s, j, 0)
             IN  IF neg THEN ScanOk(JNum(0 - r.val.n), r.pos) ELSE r

\* json.scanner.scan_once at position i, JSONObject from the character after
\* "{" and JSONArray from the character after "[".
RECURSIVE ScanOnce(_, _)
RECURSIVE ScanMembers(_, _, _)
RECURSIVE ScanElements(_, _, _)

\* The loop of JSONObject; i is the character after a key's opening quote.
\* A repeated key keeps its first place and takes the last value.
ScanMembers(s, i, acc) ==
    LET key == ScanString(s, i, <<>>) IN
    IF ~key.ok THEN ScanFail
    ELSE
    LET colon == SkipWS(s, key.pos) IN
    IF colon > Len(s) \/ s[colon] # ":" THEN ScanFail
    ELSE
    LET value == ScanOnce(s, SkipWS(s, colon + 1)) IN
    IF ~value.ok THEN ScanFail
    ELSE
    LET e == SkipWS(s, value.pos)
        pairs == DictSet(acc, key.val.s, value.val)
    IN  IF e > Len(s) THEN ScanFail
        ELSE IF s[e] = "}" THEN ScanOk(JObj(pairs), e + 1)
        ELSE IF s[e] = ","
             THEN LET q == SkipWS(s, e + 1) IN
                  IF q <= Len(s) /\ s[q] = Quote
                  THEN ScanMembers(s, q + 1, pairs)
                  ELSE ScanFail
        ELSE ScanFail

JSONObject(s, i) ==
    LET j == SkipWS(s, i) IN
    IF j > Len(s) THEN ScanFail
    ELSE IF s[j] = "}" THEN ScanOk(JObj(<<>>), j + 1)
    ELSE IF s[j] = Quote THEN ScanMembers(s, j + 1, <<>>)
    ELSE ScanFail

\* The loop of JSONArray; i is the first character of an element.
ScanElements(s, i, acc) ==
    LET value == ScanOnce(s, i) IN
    IF ~value.ok THEN ScanFail
    ELSE
    LET e == SkipWS(s, value.pos)
        items == Append(acc, value.val)
    IN  IF e > Len(s) THEN ScanFail
        ELSE IF s[e] = "]" THEN ScanOk(JArr(items), e + 1)
        ELSE IF s[e] = "," THEN ScanElements(s, SkipWS(s, e + 1), items)
        ELSE ScanFail

JSONArray(s, i) ==
    LET j == SkipWS(s, i) IN
    IF j > Len(s) THEN ScanFail
    ELSE IF s[j] = "]" THEN ScanOk(JArr(<<>>), j + 1)
    ELSE ScanElements(s, j, <<>>)

ScanOnce(s, i) ==
    IF i > Len(s) THEN ScanFail
    ELSE IF s[i] = Quote THEN ScanString(s, i + 1, <<>>)
    ELSE IF s[i] = "{" THEN JSONObject(s, i + 1)
    ELSE IF s[i] = "[" THEN JSONArray(s, i + 1)
    ELSE IF HasAt(s, i, <<"n", "u", "l", "l">>) THEN ScanOk(JNull, i + 4)
    ELSE IF HasAt(s, i, <<"t", "r", "u", "e">>) THEN ScanOk(JBool(TRUE), i + 4)
    ELSE IF HasAt(s, i, <<"f", "a", "l", "s", "e">>)
         THEN ScanOk(JBool(FALSE), i + 5)
    ELSE IF s[i] = "-" \/ s[i] \in DigitChars THEN ScanNumber(s, i)
    ELSE ScanFail

\* json.loads(s): whitespace, one value, whitespace, the end; anything else
\* raises (ok = FALSE).
json_loads(s) ==
    LET r == ScanOnce(s, SkipWS(s, 1)) IN
    IF r.ok /\ SkipWS(s, r.pos) = Len(s) + 1 THEN r ELSE ScanFail

\* The backtick: the caret stands for it (a string of the module cannot hold
\* a backtick), and no text holds a caret of its own.
Backtick == "^"

\* The fenced-block pattern, re.IGNORECASE, with ^ for the backtick:
\*   ^^^(?:json)?\s*(\{[\s\S]*?\})\s*^^^
Fence == <<Backtick, Backtick, Backtick>>

LowerCase(c) ==
    CASE c = "J" -> "j" [] c = "S" -> "s" [] c = "O" -> "o" [] c = "N" -> "n"
      [] OTHER -> c

JsonTagAt(s, i) ==
    /\ i + 3 <= Len(s)
    /\ [k \in 1..4 |-> LowerCase(s[i + k - 1])] = <<"j", "s", "o", "n">>

\* Where group 1 starts when the pattern is tried at position i (0: the
\* fence, the optional tag and the whitespace are not followed by "{").  The
\* tag and the whitespace are not "{", so giving them back never helps.
FenceGroupStart(s, i) ==
    IF ~HasAt(s, i, Fence) THEN 0
    ELSE LET afterTag == IF JsonTagAt(s, i + 3) THEN i + 7 ELSE i + 3
             g == SkipWS(s, afterTag)
         IN  IF g <= Len(s) /\ s[g] = "{" THEN g ELSE 0

\* The ends of group 1 for a group starting at g: a "}" followed by
\* whitespace and a fence.
FenceGroupEnds(s, g) ==
    {e \in (g + 1)..Len(s) : s[e] = "}" /\ HasAt(s, SkipWS(s, e + 1), Fence)}

\* Variant of FencedBlock: a greedy group 1, the longest one.
FencedBlockGreedy(s) ==
    LET starts == {i \in 1..Len(s) :
                      /\ FenceGroupStart(s, i) # 0
                      /\ FenceGroupEnds(s, FenceGroupStart(s, i)) # {}}
    IN  IF starts = {} THEN <<>>
        ELSE LET g == FenceGroupStart(s, SetMin(starts))
                 ends == FenceGroupEnds(s, g)
             IN  SubSeq(s, g, CHOOSE e \in ends : \A x \in ends : x <= e)

\* re.search: the leftmost position where the pattern matches, and there the
\* shortest group 1 (the lazy quantifier).  <<>> stands for no match.
FencedBlock(s) ==
    LET starts == {i \in 1..Len(s) :
                      /\ FenceGroupStart(s, i) # 0
                      /\ FenceGroupEnds(s, FenceGroupStart(s, i)) # {}}
    IN  IF starts = {} THEN <<>>
        ELSE LET g == FenceGroupStart(s, SetMin(starts))
             IN  SubSeq(s, g, SetMin(FenceGroupEnds(s, g)))

\* s.find("{"), 0 for -1
FindBrace(s) ==
    IF \E i \in 1..Len(s) : s[i] = "{"
    THEN SetMin({i \in 1..Len(s) : s[i] = "{"})
    ELSE 0

\* The depth-counting loop from `start`: the span up to the brace that
\* brings the depth back to zero, <<>> (None) when none does.
RECURSIVE BalancedFrom(_, _, _, _)
BalancedFrom(s, start, i, depth) ==
    IF i > Len(s) THEN <<>>
    ELSE IF s[i] = "{" THEN BalancedFrom(s, start, i + 1, depth + 1)
    ELSE IF s[i] = "}"
         THEN IF depth - 1 = 0 THEN SubSeq(s, start, i)
              ELSE BalancedFrom(s, start, i + 1, depth - 1)
    ELSE BalancedFrom(s, start, i + 1, depth)

\* Variant of _extract_json_object: the fenced block is not tried.
ExtractBalancedOnly(s) ==
    IF FindBrace(s) = 0 THEN <<>>
    ELSE BalancedFrom(s, FindBrace(s), FindBrace(s), 0)

\* _extract_json_object(s); <<>> stands for None (no match is empty).
_extract_json_object(s) ==
    IF FencedBlock(s) # <<>> THEN FencedBlock(s)
    ELSE IF FindBrace(s) = 0 THEN <<>>
    ELSE BalancedFrom(s, FindBrace(s), FindBrace(s), 0)

\* _parse_json(text): the value, JNull for None.
_parse_json(text) ==
    LET stripped == Strip(text)
        direct == json_loads(stripped)
    IN  IF direct.ok THEN direct.val
        ELSE LET extracted == _extract_json_object(stripped) IN
             IF extracted # <<>> /\ json_loads(extracted).ok
             THEN json_loads(extracted).val
             ELSE JNull

----------------------------------------------------------------------------
(* agg_planner.py: what the Generation Service returns to the planner *)

KSize == <<"s", "i", "z", "e">>
KQuery == <<"q", "u", "e", "r", "y">>
KAggs == <<"a", "g", "g", "s">>
KAggregations == <<"a", "g", "g", "r", "e", "g", "a", "t", "i", "o", "n", "s">>
KTerm == <<"t">>

\* The strings the model puts in a clause, some with brace characters.
StringValues == { <<"x">>, <<"}">>, <<"{">>, <<"{", "}">>, <<"}", "{">> }

\* The mappings the model writes: each of size, query and aggs present or
\* not, aggs also empty or not a mapping.
SizeChoices == { <<>>, << <<KSize, JNum(0)>> >>, << <<KSize, JNum(5)>> >>,
                 << <<KSize, JNull>> >> }
QueryChoices == { <<>> } \cup
    { << <<KQuery, JObj(<< <<KTerm, JStr(v)>> >>)>> >> : v \in {<<"x">>, <<"}">>} }
AggsChoices == { <<>>, << <<KAggs, JObj(<<>>)>> >>, << <<KAggs, JArr(<<>>)>> >> } \cup
    { << <<KAggs, JObj(<< <<KTerm, JStr(v)>> >>)>> >> : v \in StringValues }

ModelMappings == { JObj(s \o q \o a) :
                     s \in SizeChoices, q \in QueryChoices, a \in AggsChoices }

\* JSON the model writes that is not a mapping.
ModelNonMappings == { JArr(<<JNum(1)>>), JArr(<<>>), JNum(7), JNum(0),
                      JStr(<<"x">>), JNull, JBool(TRUE) }

\* Text that holds no JSON value: nothing, prose, a cut-off object, an
\* object with a bare key.
BrokenTexts == { <<>>,
                 <<"n", "o">>,
                 <<"{", Quote, "a", "g", "g", "s", Quote, ":">>,
                 <<"{", "a", "g", "g", "s", "}">> }

\* What the model meant to write: a JSON value, or broken text.
Broken(s) == [t |-> "broken", s |-> s]
ModelValues == ModelMappings \cup ModelNonMappings \cup
               { Broken(s) : s \in BrokenTexts }

RECURSIVE JoinTexts(_, _)
JoinTexts(texts, sep) ==
    IF texts = <<>> THEN <<>>
    ELSE IF Len(texts) = 1 THEN texts[1]
    ELSE texts[1] \o sep \o JoinTexts(Tail(texts), sep)

RECURSIVE DigitsOf(_)
DigitsOf(n) ==
    LET d == <<"0", "1", "2", "3", "4", "5", "6", "7", "8", "9">>[(n % 10) + 1]
    IN  IF n < 10 THEN <<d>> ELSE DigitsOf(n \div 10) \o <<d>>

\* The compact JSON text of a value, as the model writes it.
RECURSIVE Dumps(_)
Dumps(v) ==
    CASE v.t = "broken" -> v.s
      [] v.t = "null" -> <<"n", "u", "l", "l">>
      [] v.t = "bool" -> IF v.b THEN <<"t", "r", "u", "e">>
                         ELSE <<"f", "a", "l", "s", "e">>
      [] v.t = "num" -> IF v.n < 0 THEN <<"-">> \o DigitsOf(0 - v.n)
                        ELSE DigitsOf(v.n)
      [] v.t = "str" -> <<Quote>> \o v.s \o <<Quote>>
      [] v.t = "arr" ->
            <<"[">> \o JoinTexts([i \in 1..Len(v.items) |-> Dumps(v.items[i])],
                                 <<",">>) \o <<"]">>
      [] v.t = "obj" ->
            <<"{">> \o JoinTexts(
                [i \in 1..Len(v.kv) |->
                    <<Quote>> \o v.kv[i][1] \o <<Quote, ":">> \o Dumps(v.kv[i][2])],
                <<",">>) \o <<"}">>

\* How the model wraps what it writes.
ProseBefore == <<"o", "k", ":", " ">>
ProseAfter == <<" ", "d", "o", "n", "e">>
FencedWraps == {"fence_json", "fence_JSON", "fence_plain", "prose_fence"}
TextWraps == {"bare", "padded", "prose"} \cup FencedWraps

Wrap(w, s) ==
    CASE w = "bare" -> s
      [] w = "padded" -> <<" ", "\n">> \o s \o <<"\n">>
      [] w = "prose" -> ProseBefore \o s \o ProseAfter
      [] w = "fence_json" ->
            Fence \o <<"j", "s", "o", "n", "\n">> \o s \o <<"\n">> \o Fence
      [] w = "fence_JSON" ->
            Fence \o <<"J", "S", "O", "N", "\n">> \o s \o <<"\n">> \o Fence
      [] w = "fence_plain" -> Fence \o <<"\n">> \o s \o <<"\n">> \o Fence
      [] w = "prose_fence" ->
            ProseBefore \o Fence \o <<"j", "s", "o", "n", " ">> \o s
                \o <<" ">> \o Fence \o ProseAfter

\* What chat_completion(messages, stream=False) hands to plan_aggregation: a
\* string, or a value that is no string: None (a null content), an iterable
\* of strings (a generator), an iterable that holds a non-string.
StrOut(s) == [kind |-> "str", text |-> s]
NoneOut == [kind |-> "none"]
PartsOut(parts) == [kind |-> "parts", parts |-> parts]
IntsOut == [kind |-> "ints"]

NonStringWraps == {"none", "ints", "parts"}

Output(v, w) ==
    CASE w \in TextWraps -> StrOut(Wrap(w, Dumps(v)))
      [] w = "none" -> NoneOut
      [] w = "ints" -> IntsOut
      [] w = "parts" ->
            LET s == Dumps(v) IN
            PartsOut(<<SubSeq(s, 1, Len(s) \div 2),
                       SubSeq(s, (Len(s) \div 2) + 1, Len(s))>>)

----------------------------------------------------------------------------
(* agg_planner.py: plan_aggregation, run_aggregation, plan_and_run *)

\* Variant of Normalize: no handler around the join.
NormalizeNoHandler(out) ==
    CASE out.kind = "str" -> [raised |-> FALSE, str |-> out.text]
      [] out.kind = "parts" ->
            [raised |-> FALSE, str |-> JoinTexts(out.parts, <<>>)]
      [] OTHER -> [raised |-> TRUE, str |-> <<>>]

\* Lines 177-187: out_str from out_any.  "".join(list(out_any)) raises for
\* None and for an iterable with a non-string; the handler turns that into "".
Normalize(out) ==
    CASE out.kind = "str" -> [raised |-> FALSE, str |-> out.text]
      [] out.kind = "parts" ->
            [raised |-> FALSE, str |-> JoinTexts(out.parts, <<>>)]
      [] OTHER -> [raised |-> FALSE, str |-> <<>>]

\* Variant of SetDefault: an assignment, which replaces a value.
SetDefaultOverwrites(d, key, value) == JObj(DictSet(d.kv, key, value))

\* body.setdefault(key, value)
SetDefault(d, key, value) ==
    IF HasKey(d, key) THEN d ELSE JObj(Append(d.kv, <<key, value>>))

\* Variant of Validate: no check of aggs.
ValidateNoAggsCheck(body) ==
    IF Falsy(body) \/ body.t # "obj" THEN JNull
    ELSE SetDefault(body, KSize, JNum(0))

\* Variant of Validate: an empty aggs is rejected too.
ValidateNonEmptyAggs(body) ==
    IF Falsy(body) \/ body.t # "obj" THEN JNull
    ELSE IF ~HasKey(body, KAggs) \/ Falsy(Lookup(body, KAggs)) THEN JNull
    ELSE SetDefault(body, KSize, JNum(0))

\* Lines 193-202: the value plan_aggregation returns for the parsed body.
Validate(body) ==
    IF Falsy(body) \/ body.t # "obj" THEN JNull
    ELSE IF ~HasKey(SetDefault(body, KSize, JNum(0)), KAggs) THEN JNull
    ELSE SetDefault(body, KSize, JNum(0))

\* get_client(): retry_on_timeout=True, max_retries=3.  The client sends a
\* request again after a timeout or a connection error, until max_retries
\* retries are used up; an error answer of the store (a rejected body) is
\* not sent again.
max_retries == 3
TransientErrors == {"timeout", "connection"}
SearchErrors == TransientErrors \cup {"rejected"}

Retries(error, attempt) == error \in TransientErrors /\ attempt <= max_retries

\* Lines 216-225: what plan_and_run does with an exception of the try block.
Handler(error) == [raised |-> FALSE, result |-> JNull]

\* What the store answers to a search that succeeds: with and without
\* "aggregations".
StoreResponses ==
    { JObj(<<>>),
      JObj(<< <<KAggregations,
                JObj(<< <<KTerm, JObj(<< <<<<"v">>, JNum(42)>> >>)>> >>)>> >>) }

\* resp.get("aggregations") or {}
AggregationsOf(resp) ==
    IF HasKey(resp, KAggregations) /\ ~Falsy(Lookup(resp, KAggregations))
    THEN Lookup(resp, KAggregations)
    ELSE JObj(<<>>)

PlannerInit ==
    /\ pl_pc = "start"
    /\ gen_value \in ModelValues
    /\ gen_wrap \in TextWraps \cup NonStringWraps
    /\ gen_wrap \in {"none", "ints"} => gen_value = Broken(<<>>)
    /\ out_any = Output(gen_value, gen_wrap)
    /\ out_str = <<>>
    /\ parsed = JNull
    /\ plan = JNull
    /\ searches = <<>>
    /\ attempts = 0
    /\ search_error = ""
    /\ agg_result = JNull

PlannerIdle ==
    /\ pl_pc = "idle"
    /\ gen_value = JNull
    /\ gen_wrap = "bare"
    /\ out_any = NoneOut
    /\ out_str = <<>>
    /\ parsed = JNull
    /\ plan = JNull
    /\ searches = <<>>
    /\ attempts = 0
    /\ search_error = ""
    /\ agg_result = JNull

\* plan_aggregation, lines 176-187: out_str from the service's return value.
PlanNormalize ==
    /\ pl_pc = "start"
    /\ IF Normalize(out_any).raised
       THEN /\ pl_pc' = "raised"
            /\ UNCHANGED out_str
       ELSE /\ pl_pc' = "parse"
            /\ out_str' = Normalize(out_any).str
    /\ UNCHANGED <<gen_value, gen_wrap, out_any, parsed, plan, searches,
                   attempts, search_error, agg_result>>
    /\ UNCHANGED otherThanPlanner

\* plan_aggregation, line 192: body = _parse_json(out_str)
PlanParse ==
    /\ pl_pc = "parse"
    /\ parsed' = _parse_json(out_str)
    /\ pl_pc' = "validate"
    /\ UNCHANGED <<gen_value, gen_wrap, out_any, out_str, plan, searches,
                   attempts, search_error, agg_result>>
    /\ UNCHANGED otherThanPlanner

\* plan_aggregation, lines 193-202: the checks, the default and the return.
PlanValidate ==
    /\ pl_pc = "validate"
    /\ plan' = Validate(parsed)
    /\ pl_pc' = "planned"
    /\ UNCHANGED <<gen_value, gen_wrap, out_any, out_str, parsed, searches,
                   attempts, search_error, agg_result>>
    /\ UNCHANGED otherThanPlanner

\* plan_and_run, lines 212-215: if not body: return None
PlanAndRunNoBody ==
    /\ pl_pc = "planned"
    /\ Falsy(plan)
    /\ agg_result' = JNull
    /\ pl_pc' = "done"
    /\ UNCHANGED <<gen_value, gen_wrap, out_any, out_str, parsed, plan,
                   searches, attempts, search_error>>
    /\ UNCHANGED otherThanPlanner

\* plan_and_run, line 217, and run_aggregation: es.search(index, body=body)
RunAggregation ==
    /\ pl_pc = "planned"
    /\ ~Falsy(plan)
    /\ searches' = Append(searches, plan)
    /\ pl_pc' = "search"
    /\ UNCHANGED <<gen_value, gen_wrap, out_any, out_str, parsed, plan,
                   attempts, search_error, agg_result>>
    /\ UNCHANGED otherThanPlanner

\* The store answers an attempt of the search; plan_and_run, lines 218-222.
SearchSucceeds ==
    /\ pl_pc = "search"
    /\ \E resp \in StoreResponses :
          agg_result' = [t |-> "result", body |-> plan,
                         aggregations |-> AggregationsOf(resp)]
    /\ attempts' = attempts + 1
    /\ search_error' = ""
    /\ pl_pc' = "done"
    /\ UNCHANGED <<gen_value, gen_wrap, out_any, out_str, parsed, plan,
                   searches>>
    /\ UNCHANGED otherThanPlanner

\* An attempt of the search fails: the client sends the request again, or
\* raises and plan_and_run's handler (lines 223-225) returns None.
SearchFails ==
    /\ pl_pc = "search"
    /\ \E error \in SearchErrors :
          /\ attempts' = attempts + 1
          /\ search_error' = error
          /\ IF Retries(error, attempts + 1)
             THEN UNCHANGED <<pl_pc, agg_result>>
             ELSE IF Handler(error).raised
                  THEN pl_pc' = "raised" /\ UNCHANGED agg_result
                  ELSE pl_pc' = "done" /\ agg_result' = Handler(error).result
    /\ UNCHANGED <<gen_value, gen_wrap, out_any, out_str, parsed, plan,
                   searches>>
    /\ UNCHANGED otherThanPlanner

PlannerNext ==
    \/ PlanNormalize
    \/ PlanParse
    \/ PlanValidate
    \/ PlanAndRunNoBody
    \/ RunAggregation
    \/ SearchSucceeds
    \/ SearchFails

----------------------------------------------------------------------------
(* Properties of the planner *)

\* plan_aggregation has returned.
Planned == pl_pc \in {"planned", "search", "done"}

\* The wrappings of a JSON object that C4 compares: a fenced block, and the
\* bare object between prose.
ComparedWraps == FencedWraps \cup {"prose"}

\* C4: the same JSON object, whether or not its string values hold brace
\* characters, parses to the same value when it comes in a fenced block and
\* when it comes bare between leading and trailing prose: the value parsed
\* from the model's output equals the value parsed from every other
\* wrapping of the object the model wrote.
C4_SameObjectInEveryWrapping ==
    (Planned /\ gen_value \in ModelMappings /\ gen_wrap \in ComparedWraps) =>
        \A w \in ComparedWraps :
            _parse_json(Wrap(w, Dumps(gen_value))) = parsed

\* C5: a parsed output without the key aggs is rejected by plan_aggregation
\* even when it has a query, plan_and_run then returns None without a
\* search, and every body handed to es.search has the key aggs.
C5_NoAggsNeverSearched ==
    /\ \A k \in 1..Len(searches) : HasKey(searches[k], KAggs)
    /\ (Planned /\ parsed.t = "obj" /\ ~HasKey(parsed, KAggs)) =>
          /\ plan = JNull
          /\ searches = <<>>
          /\ attempts = 0
          /\ pl_pc # "search"
          /\ agg_result = JNull

\* A finished call whose parsed output had a query and no aggs.
C5_Witness ==
    /\ pl_pc = "done"
    /\ parsed.t = "obj"
    /\ HasKey(parsed, KQuery)
    /\ ~HasKey(parsed, KAggs)
    /\ searches = <<>>

\* C6: every plan that plan_aggregation returns has a non-empty
\* mapping under aggs.
C6_ReturnedAggsNonEmpty ==
    (Planned /\ plan # JNull) =>
        /\ HasKey(plan, KAggs)
        /\ Lookup(plan, KAggs).t = "obj"
        /\ Lookup(plan, KAggs).kv # <<>>

\* C6, amended: plan_aggregation rejects a parsed non-empty mapping only
\* when the key aggs is absent; a mapping whose aggs is present is returned
\* whatever the value of aggs is, the empty mapping included, so every
\* returned plan has the key aggs with the value the model gave it.
C6_AggsKeyPresenceDecides ==
    (Planned /\ parsed.t = "obj" /\ parsed.kv # <<>>) =>
        /\ (plan # JNull) <=> HasKey(parsed, KAggs)
        /\ plan # JNull =>
              /\ HasKey(plan, KAggs)
              /\ Lookup(plan, KAggs) = Lookup(parsed, KAggs)

\* A returned plan whose aggs is the empty mapping.
C6_Witness ==
    /\ Planned
    /\ plan # JNull
    /\ Lookup(plan, KAggs) = JObj(<<>>)

\* C7: every returned plan has the key size: 0 when the parsed output had
\* none, and the parsed output's own value when it had one; every other key
\* of the parsed output is returned with its value.
C7_SizeDefaultedOrUntouched ==
    (Planned /\ plan # JNull) =>
        /\ HasKey(plan, KSize)
        /\ IF HasKey(parsed, KSize)
           THEN plan = parsed
           ELSE /\ Lookup(plan, KSize) = JNum(0)
                /\ Len(plan.kv) = Len(parsed.kv) + 1
                /\ \A i \in 1..Len(parsed.kv) : plan.kv[i] = parsed.kv[i]

\* A returned plan whose size is the 5 that the model wrote.
C7_Witness ==
    /\ Planned
    /\ plan # JNull
    /\ HasKey(parsed, KSize)
    /\ Lookup(plan, KSize) = JNum(5)

\* The returns of the Generation Service that C8 lists: a value that is no
\* string, the empty string and text that is not parseable JSON, JSON that
\* is not a mapping, a mapping without aggs.
FailureOutput ==
    \/ gen_wrap \in {"none", "ints"}
    \/ gen_value.t = "broken"
    \/ gen_value \in ModelNonMappings
    \/ (gen_value \in ModelMappings /\ ~HasKey(gen_value, KAggs))

\* C8: plan_aggregation never raises, and for each of these returns of the
\* Generation Service it returns None.
C8_FailureOutputsGiveNone ==
    /\ pl_pc # "raised"
    /\ (Planned /\ FailureOutput) => plan = JNull

\* plan_aggregation has returned None for a return value that is no string.
C8_Witness ==
    /\ pl_pc = "done"
    /\ out_any = NoneOut
    /\ plan = JNull

\* The search of a valid plan has failed for good.
SearchFailed == pl_pc \in {"done", "raised"} /\ search_error # ""

\* C9: when the search of a valid plan fails, plan_and_run returns None
\* without raising and the search request was sent to the store once.
C9_FailedSearchNotSentAgain ==
    SearchFailed => (pl_pc = "done" /\ agg_result = JNull /\ attempts = 1)

\* What plan_and_run does with a failed search: it returns None without
\* raising and calls es.search once; the client of get_client sends that
\* request again after a timeout or a connection error, max_retries more
\* times, and only a search that the store rejects fails after one attempt.
ClientRetriesThenNone ==
    /\ pl_pc # "raised"
    /\ Len(searches) <= 1
    /\ attempts <= max_retries + 1
    /\ SearchFailed =>
          /\ agg_result = JNull
          /\ Len(searches) = 1
          /\ search_error \in TransientErrors => attempts = max_retries + 1
          /\ attempts = 1 => search_error = "rejected"

----------------------------------------------------------------------------
(* retrieve.py and elastic.py: search and retrieve *)

\* Bounds of the index: its documents and their relevance to the query.
MaxIndexDocs == 3
MaxScore == 2

\* A document of the index, for one query: the relevance the store computes
\* for it (0: no clause of the query matches it) and whether its _source has
\* a field named "score" of its own.
SourceScore == 9
IndexDocValues == [relevance : 0..MaxScore, own_score : BOOLEAN]

\* The _source of the document with identifier i.
SourceOf(i) ==
    IF index[i].own_score THEN [id |-> i, score |-> SourceScore]
    ELSE [id |-> i]

\* A hit of the response.
HitOf(i) == [_score |-> index[i].relevance, _source |-> SourceOf(i)]

\* The documents the bool query matches: minimum_should_match is 1.
Matching == {i \in 1..Len(index) : index[i].relevance > 0}

\* es.search(index, body) for the body that search() builds: size is top_k,
\* there is no sort clause, so the hits are the best `size` matching
\* documents in descending order of _score; equal scores come in an order
\* that the store chooses.
SearchHits(size) ==
    LET n == Min2(size, Cardinality(Matching))
    IN  { [k \in 1..n |-> HitOf(ids[k])] :
            ids \in { s \in [1..n -> Matching] :
                        /\ \A a, b \in 1..n : a # b => s[a] # s[b]
                        /\ \A a, b \in 1..n : a < b =>
                              index[s[a]].relevance >= index[s[b]].relevance
                        /\ \A a \in 1..n : \A j \in Matching :
                              (\A b \in 1..n : s[b] # j) =>
                                  index[s[a]].relevance >= index[j].relevance } }

\* Variant of Record: the store's score wins over a field of _source.
RecordKeepsStoreScore(h) ==
    [k \in {"score"} \cup DOMAIN h._source |->
        IF k = "score" THEN h._score ELSE h._source[k]]

\* {"score": score, **src}
Record(h) ==
    [k \in {"score"} \cup DOMAIN h._source |->
        IF k \in DOMAIN h._source THEN h._source[k] ELSE h._score]

\* Variant of Collect: each record is put in front.
RECURSIVE CollectPrepending(_, _)
CollectPrepending(hits, acc) ==
    IF hits = <<>> THEN acc
    ELSE CollectPrepending(Tail(hits), <<Record(Head(hits))>> \o acc)

\* The loop of retrieve over hits: results.append(...)
RECURSIVE Collect(_, _)
Collect(hits, acc) ==
    IF hits = <<>> THEN acc
    ELSE Collect(Tail(hits), Append(acc, Record(Head(hits))))

RetrieveInit ==
    /\ rt_pc = "start"
    /\ index \in SeqsUpTo(IndexDocValues, MaxIndexDocs)
    /\ rt_top_k \in 1..MaxIndexDocs
    /\ resp_hits = <<>>
    /\ results = <<>>

RetrieveIdle ==
    /\ rt_pc = "idle"
    /\ index = <<>>
    /\ rt_top_k = 0
    /\ resp_hits = <<>>
    /\ results = <<>>

\* retrieve, line 8: resp = search(query, None, top_k); elastic.py, search.
Search ==
    /\ rt_pc = "start"
    /\ resp_hits' \in SearchHits(rt_top_k)
    /\ rt_pc' = "collect"
    /\ UNCHANGED <<index, rt_top_k, results>>
    /\ UNCHANGED otherThanRetrieve

\* retrieve, lines 10-16: one record per hit, then return results.
RetrieveCollect ==
    /\ rt_pc = "collect"
    /\ results' = Collect(resp_hits, <<>>)
    /\ rt_pc' = "done"
    /\ UNCHANGED <<index, rt_top_k, resp_hits>>
    /\ UNCHANGED otherThanRetrieve

RetrieveNext ==
    \/ Search
    \/ RetrieveCollect

----------------------------------------------------------------------------
(* Properties of retrieve *)

\* The relevance the store reported for the hit a record was made from.
ReportedScore(r) ==
    LET k == CHOOSE k \in 1..Len(resp_hits) : resp_hits[k]._source.id = r.id
    IN  resp_hits[k]._score

\* C10: retrieve returns one record per hit of the response, the k-th record
\* made from the k-th hit, and the records are in descending order of the
\* relevance the store reported for their hits.
C10_OneRecordPerHitDescending ==
    rt_pc = "done" =>
        /\ Len(results) = Len(resp_hits)
        /\ \A k \in 1..Len(results) :
              /\ results[k].id = resp_hits[k]._source.id
              /\ \A f \in DOMAIN resp_hits[k]._source :
                    results[k][f] = resp_hits[k]._source[f]
        /\ \A a, b \in 1..Len(results) :
              a < b => ReportedScore(results[a]) >= ReportedScore(results[b])

\* A response of three hits, none in the position of its document in the
\* index, the last one with a lower score than the one before it.
C10_Witness ==
    /\ rt_pc = "done"
    /\ Len(results) = 3
    /\ results[1].id = 2 /\ results[2].id = 3 /\ results[3].id = 1
    /\ ReportedScore(results[2]) > ReportedScore(results[3])

----------------------------------------------------------------------------
(* openai_client.py: the lines of the streamed generation response *)

\* The keys of a chunk of the streaming API that _chat_stream reads.
StreamKey ==
    [ choices |-> <<"c", "h", "o", "i", "c", "e", "s">>,
      delta |-> <<"d", "e", "l", "t", "a">>,
      content |-> <<"c", "o", "n", "t", "e", "n", "t">>,
      role |-> <<"r", "o", "l", "e">> ]

\* The prefixes of a data line and the end-of-stream marker.
Marker ==
    [ data_colon |-> <<"d", "a", "t", "a", ":">>,
      data_space |-> <<"d", "a", "t", "a", " ">>,
      done |-> <<"[", "D", "O", "N", "E", "]">> ]

\* What the Generation Service sends as one line of the response: a blank
\* line, a comment line, a data line with a chunk (with content, with empty
\* content, with a delta that has no content), a chunk as a bare JSON line,
\* a line of a bare JSON chunk with empty content, a data line that is not
\* JSON, and the end-of-stream marker.
\* The content of a chunk is an answer text, or the empty text of a
\* keepalive chunk.
Event(kind, content) == [kind |-> kind, content |-> content]
ServiceEvents ==
    { Event(k, <<>>) : k \in {"blank", "comment", "role", "garbage", "done"} }
    \cup { Event("chunk", c) : c \in {<<"a">>, <<"b", "c">>, <<>>} }
    \cup { Event("bare", c) : c \in {<<"a">>, <<>>} }

\* The text of the line that carries an event.
LineOf(ev) ==
    LET \* the chunk object of the streaming API: one choice and its delta
        ChunkObj(delta) ==
            JObj(<< <<StreamKey.choices,
                      JArr(<<JObj(<< <<StreamKey.delta, delta>> >>)>>)>> >>)
    IN
    CASE ev.kind = "blank" -> <<>>
      [] ev.kind = "comment" -> <<":", " ", "p", "i", "n", "g">>
      [] ev.kind = "role" ->
            Marker.data_colon \o <<" ">>
                \o Dumps(ChunkObj(JObj(<< <<StreamKey.role, JStr(<<"x">>)>> >>)))
      [] ev.kind = "garbage" -> Marker.data_colon \o <<" ", "{", "o", "o", "p", "s">>
      [] ev.kind = "done" -> Marker.data_colon \o <<" ">> \o Marker.done
      [] ev.kind = "chunk" ->
            Marker.data_colon \o <<" ">>
                \o Dumps(ChunkObj(JObj(<< <<StreamKey.content, JStr(ev.content)>> >>)))
      [] ev.kind = "bare" ->
            Dumps(ChunkObj(JObj(<< <<StreamKey.content, JStr(ev.content)>> >>)))

\* The position of the first colon of a text, 0 when it has none.
RECURSIVE FirstColon(_, _)
FirstColon(s, i) ==
    IF i > Len(s) THEN 0
    ELSE IF s[i] = ":" THEN i
    ELSE FirstColon(s, i + 1)

\* d.get(key, default)
Get(d, key, default) == IF HasKey(d, key) THEN Lookup(d, key) ELSE default

\* obj.get("choices", [{}])[0].get("delta", {}).get("content"): raised is
\* TRUE when a value on the way is not a mapping or the list is empty.
ContentOf(obj) ==
    LET none == [raised |-> TRUE, content |-> JNull] IN
    IF obj.t # "obj" THEN none
    ELSE LET choices == Get(obj, StreamKey.choices, JArr(<<JObj(<<>>)>>)) IN
         IF choices.t # "arr" \/ choices.items = <<>> THEN none
         ELSE LET first == choices.items[1] IN
              IF first.t # "obj" THEN none
              ELSE LET delta == Get(first, StreamKey.delta, JObj(<<>>)) IN
                   IF delta.t # "obj" THEN none
                   ELSE [raised |-> FALSE,
                         content |-> Get(delta, StreamKey.content, JNull)]

\* Variant of YieldsContent: `if content is not None`.
YieldsContentNotNone(content) == content # JNull

\* if content: yield content
YieldsContent(content) == ~Falsy(content)

\* Lines 70-74 and 82-85: what the loop does with a decoded chunk.
Emit(obj) ==
    LET c == ContentOf(obj) IN
    IF c.raised THEN [act |-> "raise", content |-> JNull]
    ELSE IF YieldsContent(c.content) THEN [act |-> "yield", content |-> c.content]
    ELSE [act |-> "skip", content |-> JNull]

\* Variant of HandleLine: no `if data == "[DONE]": break`; the marker is
\* data that is not JSON.
HandleLineNoBreak(line) ==
    LET skip == [act |-> "skip", content |-> JNull] IN
    IF line = <<>> THEN skip
    ELSE IF ~HasAt(line, 1, Marker.data_colon) /\ ~HasAt(line, 1, Marker.data_space)
    THEN LET r == json_loads(line) IN
         IF r.ok THEN Emit(r.val) ELSE skip
    ELSE IF FirstColon(line, 1) = 0
    THEN [act |-> "raise", content |-> JNull]
    ELSE LET data == Strip(SubSeq(line, FirstColon(line, 1) + 1, Len(line))) IN
         LET r == json_loads(data) IN
         IF r.ok THEN Emit(r.val) ELSE skip

\* One iteration of `for line in r.iter_lines()`, lines 61-85: skip the
\* line, yield a content, break out of the loop, or raise.
HandleLine(line) ==
    LET skip == [act |-> "skip", content |-> JNull] IN
    IF line = <<>> THEN skip
    ELSE IF ~HasAt(line, 1, Marker.data_colon) /\ ~HasAt(line, 1, Marker.data_space)
    THEN LET r == json_loads(line) IN
         IF r.ok THEN Emit(r.val) ELSE skip
    ELSE IF FirstColon(line, 1) = 0
    THEN [act |-> "raise", content |-> JNull]
    ELSE LET data == Strip(SubSeq(line, FirstColon(line, 1) + 1, Len(line))) IN
         IF data = Marker.done THEN [act |-> "break", content |-> JNull]
         ELSE LET r == json_loads(data) IN
              IF r.ok THEN Emit(r.val) ELSE skip

----------------------------------------------------------------------------
(* server.py: chat and stream; answer.py; prompts.py *)

\* Bound of the stream: the lines the Generation Service sends at most
\* before it closes the response.
MaxLines == 3

\* The arguments chat passes: retrieve(query, top_k=12), rerank(..., top_k=8).
RetrieveTopK == 12
ChatTopK == 8

\* The body of the request: none, or a mapping of strings.
Payloads ==
    LET empty == [k \in {} |-> ""] IN
    { [sent |-> FALSE, body |-> empty] } \cup
    { [sent |-> TRUE, body |-> b] :
        b \in { empty, [query |-> ""], [other |-> "x"],
                [query |-> "q"], [query |-> " "] } }

\* Variant of MissingQuery: only the payload is looked at.
MissingQueryPayloadOnly(p) == ~p.sent \/ DOMAIN p.body = {}

\* not payload or not payload.get("query")
MissingQuery(p) ==
    \/ ~p.sent
    \/ DOMAIN p.body = {}
    \/ "query" \notin DOMAIN p.body
    \/ p.body["query"] = ""

\* What the store answers to the search of retrieve: hits in descending
\* order of _score, at most top_k of them, or an error of the client.
ChatHitLists ==
    LET hit1 == [_score |-> 2,
                 _source |-> [title |-> "t1", embedding |-> <<1, 1, -1, -1>>]]
        hit2 == [_score |-> 1,
                 _source |-> [title |-> "t2", embedding |-> <<1, 1, 1, 1>>]]
        hit3 == [_score |-> 1, _source |-> [title |-> "t3", content |-> "c3"]]
    IN  { hits \in { <<>>, <<hit3>>, <<hit1, hit2>> } :
            Len(hits) <= RetrieveTopK }

\* Variant of ServiceRaises: no raise_for_status().
ServiceRaisesUnreachableOnly(outcome) == outcome = "unreachable"

\* What the Embedding Service and the Generation Service answer to a
\* request is nothing ("unreachable"), a non-success status or success.
\* Whether the request raises: client.post / client.stream for a service
\* that cannot be reached, resp.raise_for_status() for a non-success status.
ServiceRaises(outcome) == outcome \in {"unreachable", "non_success"}

\* p.get(key, "")
Field(p, key) == IF key \in DOMAIN p THEN p[key] ELSE ""

\* Variant of context_blocks: a placeholder block when there is no passage.
ContextBlocksWithPlaceholder(passages) ==
    IF passages = <<>>
    THEN << [n |-> 0, title |-> "", source |-> "", url |-> "", content |-> ""] >>
    ELSE [i \in 1..Len(passages) |->
            [n |-> i, title |-> Field(passages[i], "title"),
             source |-> Field(passages[i], "source"),
             url |-> Field(passages[i], "url"),
             content |-> Field(passages[i], "content")]]

\* prompts.py, lines 16-22: one block per passage, numbered from 1.
context_blocks(passages) ==
    [i \in 1..Len(passages) |->
        [n |-> i, title |-> Field(passages[i], "title"),
         source |-> Field(passages[i], "source"),
         url |-> Field(passages[i], "url"),
         content |-> Field(passages[i], "content")]]

\* build_answer_prompt(query, passages), without history: the system
\* message and the user message, whose text is the question followed by the
\* blocks of the context.
build_answer_prompt(query, passages) ==
    [question |-> query, context |-> context_blocks(passages)]

\* len(token)
TokenLen(token) ==
    CASE token.t = "str" -> Len(token.s)
      [] token.t = "arr" -> Len(token.items)
      [] token.t = "obj" -> Len(token.kv)

\* Variant of Forward: the token is merged into the fragment before it.
ForwardMerging(sent, token) ==
    IF sent = <<>> THEN <<token>>
    ELSE [sent EXCEPT ![Len(sent)] = JStr(sent[Len(sent)].s \o token.s)]

\* server.py, line 84, and answer.py, line 8: the token goes to the caller
\* as a fragment of its own.
Forward(sent, token) == Append(sent, token)

\* Variant of GeneratorExit: the connection is left open.
GeneratorExitLeaks(conn) == conn

\* The generator is closed while suspended at its yield: GeneratorExit
\* leaves the two `with` blocks of _chat_stream, which closes the response
\* and the client.
GeneratorExit(conn) == IF conn = "open" THEN "closed" ELSE conn

ChatInit ==
    /\ ch_pc = "start"
    /\ payload \in Payloads
    /\ stages = <<>>
    /\ failure = ""
    /\ store_hits = <<>>
    /\ initial_docs = <<>>
    /\ qvec = ZeroVec
    /\ messages = [question |-> "", context |-> <<>>]
    /\ http_status = 0
    /\ gen_conn = "none"
    /\ produced = <<>>
    /\ pending = <<>>
    /\ delivered = <<>>
    /\ chars = 0
    /\ stream_end_logged = FALSE
    /\ caller = "connected"

ChatIdle ==
    /\ ch_pc = "idle"
    /\ payload = [sent |-> FALSE, body |-> [k \in {} |-> ""]]
    /\ stages = <<>>
    /\ failure = ""
    /\ store_hits = <<>>
    /\ initial_docs = <<>>
    /\ qvec = ZeroVec
    /\ messages = [question |-> "", context |-> <<>>]
    /\ http_status = 0
    /\ gen_conn = "none"
    /\ produced = <<>>
    /\ pending = <<>>
    /\ delivered = <<>>
    /\ chars = 0
    /\ stream_end_logged = FALSE
    /\ caller = "connected"

\* Lines 53-55: the check of the payload; HTTPException(400).
ChatValidate ==
    /\ ch_pc = "start"
    /\ IF MissingQuery(payload)
       THEN ch_pc' = "rejected" /\ http_status' = 400
       ELSE ch_pc' = "retrieve" /\ UNCHANGED http_status
    /\ UNCHANGED <<payload, store_hits, stages, failure, initial_docs, qvec, messages,
                   gen_conn, produced, pending, delivered, chars,
                   stream_end_logged, caller>>
    /\ UNCHANGED <<rerankVars, otherThanChat>>

\* Line 62: initial_docs = retrieve(query, top_k=12).  Neither retrieve nor
\* chat handles an exception of the search: the request ends with status 500.
ChatRetrieve ==
    /\ ch_pc = "retrieve"
    /\ stages' = Append(stages, "retrieve")
    /\ \/ \E error \in SearchErrors :
             /\ failure' = "store"
             /\ ch_pc' = "error"
             /\ http_status' = 500
             /\ UNCHANGED <<store_hits, initial_docs>>
       \/ \E hits \in ChatHitLists :
             /\ store_hits' = hits
             /\ initial_docs' = Collect(hits, <<>>)
             /\ ch_pc' = "embed"
             /\ UNCHANGED <<failure, http_status>>
    /\ UNCHANGED <<payload, qvec, messages, gen_conn, produced, pending,
                   delivered, chars, stream_end_logged, caller>>
    /\ UNCHANGED <<rerankVars, otherThanChat>>

\* Line 67: qvec = embed_text(query); openai_client.py, lines 19-29.
ChatEmbed ==
    /\ ch_pc = "embed"
    /\ stages' = Append(stages, "embed")
    /\ \E outcome \in {"unreachable", "non_success", "ok"} :
          IF ServiceRaises(outcome)
          THEN /\ failure' = "embed"
               /\ ch_pc' = "error"
               /\ http_status' = 500
               /\ UNCHANGED qvec
          ELSE /\ qvec' = <<1, 1, 1, 1>>
               /\ failure' = IF outcome = "ok" THEN failure ELSE "embed"
               /\ ch_pc' = "rerank"
               /\ UNCHANGED http_status
    /\ UNCHANGED <<payload, store_hits, initial_docs, messages, gen_conn, produced,
                   pending, delivered, chars, stream_end_logged, caller>>
    /\ UNCHANGED <<rerankVars, otherThanChat>>

\* Line 72: the call rerank(qvec, initial_docs, top_k=8); the steps of
\* rerank follow.  rerank's default lambda_mult is 0.7, which is no multiple
\* of 1/LambdaDen; the multiple below 1 stands for it.  A list of at most
\* two records, as the store returns here, is reranked the same for every
\* lambda: the first pick does not use it and the second has one candidate.
ChatRerank ==
    /\ ch_pc = "rerank"
    /\ stages' = Append(stages, "rerank")
    /\ rk_pc' = "start"
    /\ query_vector' = qvec
    /\ docs' = initial_docs
    /\ lambda_mult' = LambdaDen - 1
    /\ top_k' = ChatTopK
    /\ selected' = <<>>
    /\ remaining' = {}
    /\ reranked' = <<>>
    /\ ch_pc' = "reranking"
    /\ UNCHANGED <<payload, store_hits, failure, initial_docs, qvec, messages,
                   http_status, gen_conn, produced, pending, delivered,
                   chars, stream_end_logged, caller>>
    /\ UNCHANGED otherThanChat

\* Line 72: rerank has returned, or raised.
ChatReranked ==
    /\ ch_pc = "reranking"
    /\ rk_pc \in {"done", "raised"}
    /\ IF rk_pc = "raised"
       THEN ch_pc' = "error" /\ http_status' = 500
       ELSE ch_pc' = "prompt" /\ UNCHANGED http_status
    /\ UNCHANGED <<payload, store_hits, stages, failure, initial_docs, qvec, messages,
                   gen_conn, produced, pending, delivered, chars,
                   stream_end_logged, caller>>
    /\ UNCHANGED <<rerankVars, otherThanChat>>

\* Line 76: messages = build_answer_prompt(query, reranked)
ChatPrompt ==
    /\ ch_pc = "prompt"
    /\ stages' = Append(stages, "prompt")
    /\ messages' = build_answer_prompt(payload.body["query"], reranked)
    /\ ch_pc' = "respond"
    /\ UNCHANGED <<payload, store_hits, failure, initial_docs, qvec, http_status,
                   gen_conn, produced, pending, delivered, chars,
                   stream_end_logged, caller>>
    /\ UNCHANGED <<rerankVars, otherThanChat>>

\* Line 88: return StreamingResponse(stream()): the response starts with
\* status 200; the generator has not run yet.
ChatRespond ==
    /\ ch_pc = "respond"
    /\ http_status' = 200
    /\ ch_pc' = "unstarted"
    /\ UNCHANGED <<payload, store_hits, stages, failure, initial_docs, qvec, messages,
                   gen_conn, produced, pending, delivered, chars,
                   stream_end_logged, caller>>
    /\ UNCHANGED <<rerankVars, otherThanChat>>

\* The first next() of stream(): lines 80-82, answer_question, and
\* _chat_stream up to r.raise_for_status() (lines 46-59).
StreamStart ==
    /\ ch_pc = "unstarted"
    /\ stages' = Append(stages, "generate")
    /\ \E outcome \in {"unreachable", "non_success", "ok"} :
          IF ServiceRaises(outcome)
          THEN /\ failure' = "generate"
               /\ gen_conn' = IF outcome = "unreachable" THEN "none" ELSE "closed"
               /\ ch_pc' = "broken"
          ELSE /\ failure' = IF outcome = "ok" THEN failure ELSE "generate"
               /\ gen_conn' = "open"
               /\ ch_pc' = "reading"
    /\ UNCHANGED <<payload, store_hits, initial_docs, qvec, messages, http_status,
                   produced, pending, delivered, chars, stream_end_logged,
                   caller>>
    /\ UNCHANGED <<rerankVars, otherThanChat>>

\* stream() runs on to its next yield: one line of r.iter_lines() is read
\* and handled (openai_client.py, lines 60-85); a yielded content goes
\* through answer_question to stream(), which counts it and yields it
\* (server.py, lines 82-84).
StreamRead ==
    LET \* The response has no more lines, or the loop has left by break:
        \* the `with` blocks close the connection, the generators end and
        \* stream() logs the end (server.py, lines 85-86).
        StreamEnds ==
            /\ gen_conn' = "closed"
            /\ stream_end_logged' = TRUE
            /\ ch_pc' = "done"
            /\ UNCHANGED <<failure, pending, chars>>
        \* An exception leaves _chat_stream, answer_question and stream().
        StreamRaises ==
            /\ gen_conn' = "closed"
            /\ failure' = "stream"
            /\ ch_pc' = "broken"
            /\ UNCHANGED <<pending, chars, stream_end_logged>>
    IN
    /\ ch_pc = "reading"
    /\ \/ /\ UNCHANGED produced
          /\ StreamEnds
       \/ /\ UNCHANGED produced
          /\ StreamRaises
       \/ /\ Len(produced) < MaxLines
          /\ \E ev \in ServiceEvents :
                /\ produced' = Append(produced, ev)
                /\ LET h == HandleLine(LineOf(ev)) IN
                   CASE h.act = "skip" ->
                          UNCHANGED <<ch_pc, gen_conn, failure, pending, chars,
                                      stream_end_logged>>
                     [] h.act = "yield" ->
                          /\ chars' = chars + TokenLen(h.content)
                          /\ pending' = <<h.content>>
                          /\ ch_pc' = "yielded"
                          /\ UNCHANGED <<gen_conn, failure, stream_end_logged>>
                     [] h.act = "break" -> StreamEnds
                     [] h.act = "raise" -> StreamRaises
    /\ UNCHANGED <<payload, store_hits, stages, initial_docs, qvec, messages,
                   http_status, delivered, caller>>
    /\ UNCHANGED <<rerankVars, otherThanChat>>

\* The response sends the yielded token to the caller and asks the
\* generator for the next one.
Deliver ==
    /\ ch_pc = "yielded"
    /\ caller = "connected"
    /\ delivered' = Forward(delivered, pending[1])
    /\ pending' = <<>>
    /\ ch_pc' = "reading"
    /\ UNCHANGED <<payload, store_hits, stages, failure, initial_docs, qvec, messages,
                   http_status, gen_conn, produced, chars,
                   stream_end_logged, caller>>
    /\ UNCHANGED <<rerankVars, otherThanChat>>

\* The caller disconnects or aborts while the response is streamed.
Disconnect ==
    /\ ch_pc \in {"unstarted", "reading", "yielded"}
    /\ caller = "connected"
    /\ caller' = "disconnected"
    /\ UNCHANGED <<ch_pc, payload, store_hits, stages, failure, initial_docs, qvec,
                   messages, http_status, gen_conn, produced, pending,
                   delivered, chars, stream_end_logged>>
    /\ UNCHANGED <<rerankVars, otherThanChat>>

\* The response stops iterating stream() for a caller that is gone, and the
\* generator is closed where it is suspended: before its first step or at
\* its yield.  A generator that is running cannot be closed: it is closed
\* at its next yield.
Close ==
    /\ ch_pc \in {"unstarted", "yielded"}
    /\ caller = "disconnected"
    /\ gen_conn' = GeneratorExit(gen_conn)
    /\ pending' = <<>>
    /\ ch_pc' = "closed"
    /\ UNCHANGED <<payload, store_hits, stages, failure, initial_docs, qvec, messages,
                   http_status, produced, delivered, chars,
                   stream_end_logged, caller>>
    /\ UNCHANGED <<rerankVars, otherThanChat>>

ChatNext ==
    \/ ChatValidate
    \/ ChatRetrieve
    \/ ChatEmbed
    \/ ChatRerank
    \/ ChatReranked
    \/ ChatPrompt
    \/ ChatRespond
    \/ StreamStart
    \/ StreamRead
    \/ Deliver
    \/ Disconnect
    \/ Close
    \/ RerankNext

----------------------------------------------------------------------------
(* Properties of chat and of the stream of its response *)

\* The handler has made the call.
Called(stage) == stage \in Range(stages)

\* The non-empty answer texts of a sequence of events, in their order: the
\* fragments the Generation Service has produced.
RECURSIVE Fragments(_)
Fragments(events) ==
    IF events = <<>> THEN <<>>
    ELSE LET ev == Head(events) IN
         IF ev.kind \in {"chunk", "bare"} /\ ev.content # <<>>
         THEN <<JStr(ev.content)>> \o Fragments(Tail(events))
         ELSE Fragments(Tail(events))

\* C11: when the search of retrieve fails, chat goes on with an empty list
\* of candidates and the request is not aborted.
C11_StoreFailureGivesEmptyCandidates ==
    failure = "store" =>
        /\ initial_docs = <<>>
        /\ ch_pc # "error"
        /\ http_status # 500

\* The store has answered the search of retrieve with no hit.
ZeroHits == Called("retrieve") /\ failure # "store" /\ store_hits = <<>>

\* C12: when the store returns zero hits, retrieve returns the empty list,
\* rerank returns the empty list, the prompt is built with an empty
\* context, and unless the Embedding Service or the Generation Service
\* fails the response is streamed: the request ends only with the end of
\* the stream, and the caller then has every fragment the service produced.
C12_ZeroHitsStillStreams ==
    ZeroHits =>
        /\ initial_docs = <<>>
        /\ rk_pc # "raised"
        /\ Called("prompt") =>
              /\ reranked = <<>>
              /\ messages.context = <<>>
              /\ messages.question = payload.body["query"]
        /\ (failure = "" /\ caller = "connected") =>
              ch_pc \notin {"rejected", "error", "broken", "closed"}
        /\ (ch_pc = "done" /\ caller = "connected") =>
              /\ http_status = 200
              /\ Called("generate")
              /\ delivered = Fragments(produced)

\* A finished stream of two fragments for a question with no hits.
C12_Witness ==
    /\ ZeroHits
    /\ ch_pc = "done"
    /\ caller = "connected"
    /\ Len(delivered) = 2

\* C13: while the caller is connected, the tokens it has been sent,
\* followed by the token that stream() has yielded and that is on its way,
\* are exactly the non-empty fragments the service has produced so far, in
\* their order, each as a fragment of its own; and no line is read from the
\* service while a yielded token is not yet sent.
C13_FragmentsForwardedInOrder ==
    /\ [](caller = "connected" =>
            /\ delivered \o pending = Fragments(produced)
            /\ Len(pending) <= 1)
    /\ [][pending # <<>> => produced' = produced]_vars

\* Two fragments were delivered around a chunk with empty content.
C13_Witness ==
    /\ ch_pc = "done"
    /\ produced = <<Event("chunk", <<"b", "c">>), Event("chunk", <<>>),
                    Event("chunk", <<"a">>)>>
    /\ delivered = <<JStr(<<"b", "c">>), JStr(<<"a">>)>>

NothingReadAfterDisconnect ==
    [][caller = "disconnected" => (produced' = produced /\ chars' = chars)]_vars

\* C15: no token that is delivered to the caller, or on its way, is empty,
\* and there are no more of them than events with a non-empty content:
\* blank lines, lines that are not JSON and chunks without content or with
\* empty content give no token.
C15_NoEmptyFragment ==
    /\ \A i \in 1..Len(delivered) : ~Falsy(delivered[i])
    /\ \A i \in 1..Len(pending) : ~Falsy(pending[i])
    /\ Len(delivered) + Len(pending) <=
          Cardinality({ i \in 1..Len(produced) :
                          /\ produced[i].kind \in {"chunk", "bare"}
                          /\ produced[i].content # <<>> })

\* A stream of a blank line, a chunk with empty content and a chunk with
\* content has delivered one fragment.
C15_Witness ==
    /\ produced = <<Event("blank", <<>>), Event("chunk", <<>>),
                    Event("chunk", <<"a">>)>>
    /\ delivered = <<JStr(<<"a">>)>>

\* The payload is missing or has no non-empty text under "query".
NoQuestionText ==
    \/ ~payload.sent
    \/ "query" \notin DOMAIN payload.body
    \/ payload.body["query"] = ""

\* C16: a request without question text is rejected with status 400 and no
\* call to retrieve, embed_text or the Generation Service is made for it.
C16_MissingQuestionRejectedFirst ==
    NoQuestionText =>
        /\ ch_pc \in {"start", "rejected"}
        /\ ch_pc = "rejected" => http_status = 400
        /\ stages = <<>>
        /\ rk_pc = "idle"
        /\ gen_conn = "none"

\* A rejected payload that has a key, but not the key "query".
C16_Witness ==
    /\ ch_pc = "rejected"
    /\ payload.sent
    /\ DOMAIN payload.body = {"other"}

C18_PlannerFirstPackerBeforePrompt ==
    /\ stages # <<>> => stages[1] = "plan"
    /\ Called("prompt") => Called("pack")

\* The calls that chat does make, in their order: every request has made a
\* prefix of them, so each starts after the one before it has returned; the
\* planner and the packer are not among them.
ChatStages == <<"retrieve", "embed", "rerank", "prompt", "generate">>
ChatStagesInOrder ==
    /\ Len(stages) <= Len(ChatStages)
    /\ stages = SubSeq(ChatStages, 1, Len(stages))

----------------------------------------------------------------------------
(* pack.py: _compact, _title_for, _content_for, compact_docs *)

\* Bound of the list of records handed to compact_docs.
MaxPackDocs == 2

\* The keys of a record and of a passage that pack.py reads and writes.
Key ==
    [ table |-> <<"t", "a", "b", "l", "e">>,
      _table |-> <<"_", "t", "a", "b", "l", "e">>,
      type |-> <<"t", "y", "p", "e">>,
      id |-> <<"i", "d">>,
      title |-> <<"t", "i", "t", "l", "e">>,
      source |-> <<"s", "o", "u", "r", "c", "e">>,
      url |-> <<"u", "r", "l">>,
      first_name |-> <<"f", "i", "r", "s", "t", "_", "n", "a", "m", "e">>,
      last_name |-> <<"l", "a", "s", "t", "_", "n", "a", "m", "e">>,
      nationality |-> <<"n", "a", "t", "i", "o", "n", "a", "l", "i", "t", "y">>,
      date_of_birth |-> <<"d", "a", "t", "e", "_", "o", "f", "_", "b", "i", "r", "t", "h">>,
      residency |-> <<"r", "e", "s", "i", "d", "e", "n", "c", "y">>,
      country |-> <<"c", "o", "u", "n", "t", "r", "y">>,
      city |-> <<"c", "i", "t", "y">>,
      country_of_residency |-> <<"c", "o", "u", "n", "t", "r", "y", "_", "o", "f", "_", "r", "e", "s", "i", "d", "e", "n", "c", "y">>,
      city_of_residency |-> <<"c", "i", "t", "y", "_", "o", "f", "_", "r", "e", "s", "i", "d", "e", "n", "c", "y">>,
      series_code |-> <<"s", "e", "r", "i", "e", "s", "_", "c", "o", "d", "e">>,
      campaign_type |-> <<"c", "a", "m", "p", "a", "i", "g", "n", "_", "t", "y", "p", "e">>,
      ticket_price |-> <<"t", "i", "c", "k", "e", "t", "_", "p", "r", "i", "c", "e">>,
      start_date |-> <<"s", "t", "a", "r", "t", "_", "d", "a", "t", "e">>,
      end_date |-> <<"e", "n", "d", "_", "d", "a", "t", "e">>,
      total_tickets |-> <<"t", "o", "t", "a", "l", "_", "t", "i", "c", "k", "e", "t", "s">>,
      price_value |-> <<"p", "r", "i", "c", "e", "_", "v", "a", "l", "u", "e">>,
      transaction_id |-> <<"t", "r", "a", "n", "s", "a", "c", "t", "i", "o", "n", "_", "i", "d">>,
      purchase_date_time |-> <<"p", "u", "r", "c", "h", "a", "s", "e", "_", "d", "a", "t", "e", "_", "t", "i", "m", "e">>,
      payment_channel |-> <<"p", "a", "y", "m", "e", "n", "t", "_", "c", "h", "a", "n", "n", "e", "l">>,
      payment_method |-> <<"p", "a", "y", "m", "e", "n", "t", "_", "m", "e", "t", "h", "o", "d">>,
      currency |-> <<"c", "u", "r", "r", "e", "n", "c", "y">>,
      revenue |-> <<"r", "e", "v", "e", "n", "u", "e">>,
      is_first_time_buyer |-> <<"i", "s", "_", "f", "i", "r", "s", "t", "_", "t", "i", "m", "e", "_", "b", "u", "y", "e", "r">>,
      user |-> <<"u", "s", "e", "r">>,
      campaign |-> <<"c", "a", "m", "p", "a", "i", "g", "n">>,
      content |-> <<"c", "o", "n", "t", "e", "n", "t">> ]

\* The tables whose records have a title and a content of their own.
Table ==
    [ users |-> <<"u", "s", "e", "r", "s">>,
      campaigns |-> <<"c", "a", "m", "p", "a", "i", "g", "n", "s">>,
      sales_transactions |-> <<"s", "a", "l", "e", "s", "_", "t", "r", "a", "n", "s", "a", "c", "t", "i", "o", "n", "s">> ]

\* a or b
Or(a, b) == IF Falsy(a) THEN b ELSE a

\* str(v), for None, a boolean, an integer and a string
PyStr(v) ==
    CASE v.t = "null" -> <<"N", "o", "n", "e">>
      [] v.t = "bool" -> IF v.b THEN <<"T", "r", "u", "e">> ELSE <<"F", "a", "l", "s", "e">>
      [] v.t = "num" -> IF v.n < 0 THEN <<"-">> \o DigitsOf(0 - v.n)
                        ELSE DigitsOf(v.n)
      [] v.t = "str" -> v.s

\* Variant of InFalsyTuple: the tuple is (None, "", [], {}), without False;
\* 0 == False no longer matters.
InFalsyTupleKeepsFalse(v) == v \in {JNull, JStr(<<>>), JArr(<<>>), JObj(<<>>)}

\* Variant of InFalsyTuple: membership by identity, so that 0 is not False.
InFalsyTupleByIdentity(v) ==
    v \in {JNull, JStr(<<>>), JArr(<<>>), JObj(<<>>), JBool(FALSE)}

\* Variant of InFalsyTuple: only None is left out.
InFalsyTupleNoneOnly(v) == v = JNull

\* v in (None, "", [], {}, False): membership compares with ==, and 0 == False.
InFalsyTuple(v) ==
    v \in {JNull, JStr(<<>>), JArr(<<>>), JObj(<<>>), JBool(FALSE), JNum(0)}

\* _compact(obj): the pairs whose value is not in the tuple, or is True.
_compact(obj) ==
    JObj(SelectSeq(obj.kv, LAMBDA pair :
                     ~InFalsyTuple(pair[2]) \/ pair[2] = JBool(TRUE)))

\* The mapping {key: get(key) for key in keys}, keys in their order.
Pick(d, keys) == [i \in 1..Len(keys) |-> <<keys[i], Get(d, keys[i], JNull)>>]

\* doc.get("table") or doc.get("_table")
TableOf(doc) == Or(Get(doc, Key.table, JNull), Get(doc, Key._table, JNull))

\* _title_for(doc)
_title_for(doc) ==
    LET table == TableOf(doc)
        id == PyStr(Get(doc, Key.id, JNull))
        campaign == Or(Get(doc, Key.campaign, JNull), JObj(<<>>))
    IN
    CASE table = JStr(Table.users) ->
            LET first == Strip(PyStr(Or(Get(doc, Key.first_name, JNull), JStr(<<>>))))
                last == Strip(PyStr(Or(Get(doc, Key.last_name, JNull), JStr(<<>>))))
                name == Strip(first \o <<" ">> \o last)
            IN  Strip(<<"u", "s", "e", "r", ":">> \o id
                      \o (IF name # <<>> THEN <<" ">> \o name ELSE <<>>))
      [] table = JStr(Table.campaigns) ->
            LET sc == Or(Get(doc, Key.series_code, JNull),
                         Get(campaign, Key.series_code, JNull))
            IN  <<"c", "a", "m", "p", "a", "i", "g", "n", ":">> \o PyStr(Or(sc, Get(doc, Key.id, JNull)))
      [] table = JStr(Table.sales_transactions) ->
            LET sc == Get(campaign, Key.series_code, JNull) IN
            IF ~Falsy(sc)
            THEN <<"t", "r", "a", "n", "s", "a", "c", "t", "i", "o", "n", ":">> \o id \o <<" ", "c", "a", "m", "p", "a", "i", "g", "n", ":">> \o PyStr(sc)
            ELSE <<"t", "r", "a", "n", "s", "a", "c", "t", "i", "o", "n", ":">> \o id
      [] OTHER ->
            Or(Get(doc, Key.title, JNull), JStr(<<"d", "o", "c", "u", "m", "e", "n", "t">>)).s

\* The fields _content_for copies from a record of each table, and from
\* the nested user and campaign of a transaction.
Fields ==
    [ users |-> <<Key.id, Key.first_name, Key.last_name, Key.nationality, Key.date_of_birth>>,
      campaigns |-> <<Key.id, Key.series_code, Key.campaign_type, Key.ticket_price, Key.start_date,
            Key.end_date, Key.total_tickets, Key.price_value>>,
      sales |-> <<Key.id, Key.transaction_id, Key.purchase_date_time, Key.payment_channel,
            Key.payment_method, Key.currency, Key.revenue, Key.is_first_time_buyer>>,
      sale_user |-> <<Key.id, Key.nationality, Key.country_of_residency, Key.city_of_residency>>,
      sale_campaign |-> <<Key.id, Key.series_code, Key.campaign_type>> ]

\* The bound of the text of a generic document.
MaxContentChars == 1000

\* The dict that _content_for hands to json.dumps.
ContentData(doc) ==
    LET table == TableOf(doc) IN
    CASE table = JStr(Table.users) ->
            _compact(JObj(
                << <<Key.type, JStr(<<"u", "s", "e", "r">>)>> >> \o Pick(doc, Fields.users)
                \o << <<Key.residency, _compact(JObj(
                        << <<Key.country, Get(doc, Key.country_of_residency, JNull)>>,
                           <<Key.city, Get(doc, Key.city_of_residency, JNull)>> >>))>> >>))
      [] table = JStr(Table.campaigns) ->
            _compact(JObj(
                << <<Key.type, JStr(<<"c", "a", "m", "p", "a", "i", "g", "n">>)>> >> \o Pick(doc, Fields.campaigns)))
      [] table = JStr(Table.sales_transactions) ->
            LET user == Or(Get(doc, Key.user, JNull), JObj(<<>>))
                campaign == Or(Get(doc, Key.campaign, JNull), JObj(<<>>))
            IN  _compact(JObj(
                    << <<Key.type, JStr(<<"t", "r", "a", "n", "s", "a", "c", "t", "i", "o", "n">>)>> >> \o Pick(doc, Fields.sales)
                    \o << <<Key.user, _compact(JObj(Pick(user, Fields.sale_user)))>>,
                          <<Key.campaign,
                            _compact(JObj(Pick(campaign, Fields.sale_campaign)))>> >>))
      [] OTHER ->
            LET content == Strip(Or(Get(doc, Key.content, JNull), JStr(<<>>)).s)
            IN  JObj(<< <<Key.type, JStr(<<"d", "o", "c", "u", "m", "e", "n", "t">>)>>,
                        <<Key.content,
                          JStr(SubSeq(content, 1,
                                      Min2(Len(content), MaxContentChars)))>> >>)

\* _content_for(doc): json.dumps(data, ensure_ascii=False,
\* separators=(",", ":"))
_content_for(doc) == Dumps(ContentData(doc))

\* The passage that compact_docs makes of one record.
PassageOf(d) ==
    [title |-> _title_for(d),
     source |-> Get(d, Key.source, JStr(<<"e", "s">>)),
     url |-> Get(d, Key.url, JStr(<<>>)),
     content |-> _content_for(d)]

\* Variant of PackAppend: a record of no known table is left out.
PackAppendKnownTables(acc, d) ==
    IF TableOf(d) \in {JStr(Table.users), JStr(Table.campaigns), JStr(Table.sales_transactions)}
    THEN Append(acc, PassageOf(d))
    ELSE acc

\* compact.append({...}) of the loop of compact_docs
PackAppend(acc, d) == Append(acc, PassageOf(d))

\* Records of the three tables and generic documents, as the index holds
\* them: scalar fields, and for a transaction the nested user and campaign
\* (a mapping, or None).
PackRecords ==
    LET FieldValues ==
            { JNull, JStr(<<>>), JArr(<<>>), JObj(<<>>), JBool(FALSE),
              JBool(TRUE), JNum(0), JNum(5), JStr(<<"x">>) }
        UserRecord(v) ==
            JObj(<< <<Key.table, JStr(Table.users)>>, <<Key.id, JNum(1)>>,
                    <<Key.first_name, v>>, <<Key.last_name, JStr(<<"y">>)>>,
                    <<Key.city_of_residency, JStr(<<>>)>> >>)
        CampaignRecord(key, v) ==
            JObj(<< <<key, JStr(Table.campaigns)>>, <<Key.id, JNum(2)>>,
                    <<Key.series_code, JStr(<<"s">>)>>,
                    <<Key.ticket_price, v>> >>)
        SaleRecord(first, revenue) ==
            JObj(<< <<Key.table, JStr(Table.sales_transactions)>>,
                    <<Key.id, JNum(3)>>,
                    <<Key.revenue, revenue>>,
                    <<Key.is_first_time_buyer, first>>,
                    <<Key.user, JObj(<< <<Key.id, JNum(7)>>,
                                        <<Key.nationality, JStr(<<>>)>> >>)>>,
                    <<Key.campaign,
                      IF revenue = JNum(0) THEN JNull
                      ELSE JObj(<< <<Key.id, JNum(2)>>,
                                   <<Key.series_code, JStr(<<"s">>)>>,
                                   <<Key.campaign_type, JNull>> >>)>> >>)
        GenericRecords ==
            { JObj(<<>>),
              JObj(<< <<Key.title, JStr(<<>>)>>, <<Key.content, JNull>> >>),
              JObj(<< <<Key.title, JStr(<<"t">>)>>,
                      <<Key.content, JStr(<<" ", "c", " ">>)>>,
                      <<Key.source, JStr(<<"s">>)>>,
                      <<Key.url, JStr(<<"u">>)>> >>) }
    IN
    { UserRecord(v) : v \in FieldValues }
    \cup { CampaignRecord(key, v) : key \in {Key.table, Key._table},
                                    v \in {JNull, JNum(0), JNum(5)} }
    \cup { SaleRecord(first, revenue) :
             first \in {JNull, JBool(FALSE), JBool(TRUE)},
             revenue \in {JNum(0), JNum(5)} }
    \cup GenericRecords

\* Records with a long text: a user whose first name is longer than any
\* content of a generic document, and a generic document whose content,
\* stripped, is longer than the cut.
LongRecords ==
    LET Long(n) == [i \in 1..n |-> "x"] IN
    { JObj(<< <<Key.table, JStr(Table.users)>>, <<Key.id, JNum(4)>>,
              <<Key.first_name, JStr(Long(MaxContentChars + 40))>> >>),
      JObj(<< <<Key.title, JStr(<<"l">>)>>,
              <<Key.content,
                JStr(<<" ">> \o Long(MaxContentChars + 1) \o <<" ">>)>> >>) }

PackInit ==
    /\ pk_pc = "loop"
    /\ pk_docs \in SeqsUpTo(PackRecords, MaxPackDocs)
    /\ pk_i = 0
    /\ compact = <<>>

\* compact_docs(docs) for a list that may hold records with a long text.
PackLongInit ==
    /\ pk_pc = "loop"
    /\ pk_docs \in SeqsUpTo(PackRecords \cup LongRecords, MaxPackDocs)
    /\ pk_i = 0
    /\ compact = <<>>

PackIdle ==
    /\ pk_pc = "idle"
    /\ pk_docs = <<>>
    /\ pk_i = 0
    /\ compact = <<>>

\* Lines 88-94: one iteration of `for d in docs`.
PackStep ==
    /\ pk_pc = "loop"
    /\ pk_i < Len(pk_docs)
    /\ compact' = PackAppend(compact, pk_docs[pk_i + 1])
    /\ pk_i' = pk_i + 1
    /\ UNCHANGED <<pk_pc, pk_docs>>
    /\ UNCHANGED otherThanPack

\* Line 95: return compact
PackReturn ==
    /\ pk_pc = "loop"
    /\ pk_i = Len(pk_docs)
    /\ pk_pc' = "done"
    /\ UNCHANGED <<pk_docs, pk_i, compact>>
    /\ UNCHANGED otherThanPack

PackNext ==
    \/ PackStep
    \/ PackReturn

----------------------------------------------------------------------------
(* Properties of the packer *)

\* C19: compact_docs returns one passage per record, the i-th made from the
\* i-th record and from nothing else; while the loop runs, the list holds
\* the passages of the records consumed so far.
C19_OnePassagePerRecordInOrder ==
    /\ Len(compact) = pk_i
    /\ pk_i <= Len(pk_docs)
    /\ \A i \in 1..Len(compact) : compact[i] = PassageOf(pk_docs[i])
    /\ pk_pc = "done" => Len(compact) = Len(pk_docs)

\* Two records that give different passages have been packed, a generic
\* document before a user.
C19_Witness ==
    /\ pk_pc = "done"
    /\ Len(compact) = 2
    /\ TableOf(pk_docs[1]) = JNull
    /\ TableOf(pk_docs[2]) = JStr(Table.users)
    /\ compact[1].title = <<"t">>
    /\ compact[1] # compact[2]

\* The record is of one of the three tables.
TableRecord(doc) == TableOf(doc) \in {JStr(Table.users), JStr(Table.campaigns), JStr(Table.sales_transactions)}

\* The fields of the record that _content_for copies into the packed object.
CopiedFields(doc) ==
    CASE TableOf(doc) = JStr(Table.users) -> Fields.users
      [] TableOf(doc) = JStr(Table.campaigns) -> Fields.campaigns
      [] TableOf(doc) = JStr(Table.sales_transactions) -> Fields.sales

\* None, the empty string, an empty list, an empty mapping, False.
EmptyOrFalse == {JNull, JStr(<<>>), JArr(<<>>), JObj(<<>>), JBool(FALSE)}

\* No value of the mapping, and no value of a mapping nested in it, is
\* empty or False.
Dense(obj) ==
    \A j \in 1..Len(obj.kv) :
        /\ obj.kv[j][2] \notin EmptyOrFalse
        /\ obj.kv[j][2].t = "obj" =>
              \A k \in 1..Len(obj.kv[j][2].kv) :
                  obj.kv[j][2].kv[k][2] \notin EmptyOrFalse

\* C20: the content of the passage of a user, campaign or transaction
\* record is a JSON object that has no field, at the top or in a nested
\* mapping, whose value is None, the empty string, an empty list, an empty
\* mapping or False: a field of the record with such a value is left out,
\* and a field of the record whose value is True is kept with that value.
C20_FalsyOmittedTrueKept ==
    \A i \in 1..Min2(Len(compact), Len(pk_docs)) :
        TableRecord(pk_docs[i]) =>
            LET r == json_loads(compact[i].content) IN
            /\ r.ok
            /\ r.val.t = "obj"
            /\ Dense(r.val)
            /\ \A n \in 1..Len(CopiedFields(pk_docs[i])) :
                  LET key == CopiedFields(pk_docs[i])[n]
                      v == Get(pk_docs[i], key, JNull)
                  IN  /\ v \in EmptyOrFalse => ~HasKey(r.val, key)
                      /\ v = JBool(TRUE) =>
                            (HasKey(r.val, key) /\ Lookup(r.val, key) = v)

\* A transaction of a first-time buyer and a user whose first name is False
\* have been packed.
C20_Witness ==
    /\ pk_pc = "done"
    /\ Len(pk_docs) = 2
    /\ TableOf(pk_docs[1]) = JStr(Table.sales_transactions)
    /\ Get(pk_docs[1], Key.is_first_time_buyer, JNull) = JBool(TRUE)
    /\ TableOf(pk_docs[2]) = JStr(Table.users)
    /\ Get(pk_docs[2], Key.first_name, JNull) = JBool(FALSE)
    /\ HasKey(json_loads(compact[1].content).val, Key.is_first_time_buyer)
    /\ ~HasKey(json_loads(compact[2].content).val, Key.first_name)

\* The copied fields of a packed record whose value in the record is v.
FieldsWithValue(doc, v) ==
    { n \in 1..Len(CopiedFields(doc)) :
        Get(doc, CopiedFields(doc)[n], JNull) = v }

\* C21 as stated: a field of a record whose value is the boolean False is
\* never dropped, it is present in the packed content; a field whose value
\* is None, the empty string, an empty list or an empty mapping is dropped.
C21_FalseKeptEmptyDropped ==
    \A i \in 1..Min2(Len(compact), Len(pk_docs)) :
        TableRecord(pk_docs[i]) =>
            LET r == json_loads(compact[i].content) IN
            /\ \A n \in FieldsWithValue(pk_docs[i], JBool(FALSE)) :
                  HasKey(r.val, CopiedFields(pk_docs[i])[n])
            /\ \A v \in EmptyOrFalse \ {JBool(FALSE)} :
                  \A n \in FieldsWithValue(pk_docs[i], v) :
                      ~HasKey(r.val, CopiedFields(pk_docs[i])[n])

\* C21, amended: a field of a record whose value is the boolean False is
\* dropped from the packed content, exactly as a field whose value is None,
\* the empty string, an empty list or an empty mapping is.
C21_FalseDroppedLikeEmpty ==
    \A i \in 1..Min2(Len(compact), Len(pk_docs)) :
        TableRecord(pk_docs[i]) =>
            LET r == json_loads(compact[i].content) IN
            \A v \in EmptyOrFalse :
                \A n \in FieldsWithValue(pk_docs[i], v) :
                    ~HasKey(r.val, CopiedFields(pk_docs[i])[n])

\* A transaction whose is_first_time_buyer is False has been packed, and
\* its content has no such key.
C21_Witness ==
    /\ pk_pc = "done"
    /\ Len(pk_docs) >= 1
    /\ TableOf(pk_docs[1]) = JStr(Table.sales_transactions)
    /\ Get(pk_docs[1], Key.is_first_time_buyer, JNull) = JBool(FALSE)
    /\ ~HasKey(json_loads(compact[1].content).val, Key.is_first_time_buyer)

\* C27: a field of a record whose value is the number zero is left out of
\* the packed content (a transaction with revenue 0 is packed without a
\* revenue key), and a field whose value is a number other than zero is
\* kept with its value.
C27_ZeroOmittedOtherNumbersKept ==
    \A i \in 1..Min2(Len(compact), Len(pk_docs)) :
        TableRecord(pk_docs[i]) =>
            LET r == json_loads(compact[i].content) IN
            \A n \in 1..Len(CopiedFields(pk_docs[i])) :
                LET key == CopiedFields(pk_docs[i])[n]
                    v == Get(pk_docs[i], key, JNull)
                IN  v.t = "num" =>
                       IF v.n = 0 THEN ~HasKey(r.val, key)
                       ELSE HasKey(r.val, key) /\ Lookup(r.val, key) = v

\* A transaction with revenue 0 and a transaction with revenue 5 have been
\* packed: the first without a revenue key, the second with revenue 5.
C27_Witness ==
    /\ pk_pc = "done"
    /\ Len(pk_docs) = 2
    /\ TableOf(pk_docs[1]) = JStr(Table.sales_transactions)
    /\ TableOf(pk_docs[2]) = JStr(Table.sales_transactions)
    /\ Get(pk_docs[1], Key.revenue, JNull) = JNum(0)
    /\ Get(pk_docs[2], Key.revenue, JNull) = JNum(5)
    /\ ~HasKey(json_loads(compact[1].content).val, Key.revenue)
    /\ Lookup(json_loads(compact[2].content).val, Key.revenue) = JNum(5)

\* The longest content _content_for gives a generic document: the object
\* {"type":"document","content":"..."} around MaxContentChars characters.
GenericContentBound ==
    Len(Dumps(JObj(<< <<Key.type, JStr(<<"d", "o", "c", "u", "m", "e", "n", "t">>)>>,
                      <<Key.content, JStr(<<>>)>> >>))) + MaxContentChars

\* C22: the content of every passage has a bounded size whatever the values
\* of the record's fields are, the bound being the one the packer has, the
\* cut of a generic document's text at MaxContentChars characters; and the
\* text in the content of a generic document is the first MaxContentChars
\* characters, at most, of the record's stripped content.
C22_ContentBounded ==
    \A i \in 1..Min2(Len(compact), Len(pk_docs)) :
        /\ Len(compact[i].content) <= GenericContentBound
        /\ ~TableRecord(pk_docs[i]) =>
              LET stripped ==
                      Strip(Or(Get(pk_docs[i], Key.content, JNull), JStr(<<>>)).s)
              IN  compact[i].content =
                      Dumps(JObj(<< <<Key.type, JStr(<<"d", "o", "c", "u", "m", "e", "n", "t">>)>>,
                                    <<Key.content,
                                      JStr(SubSeq(stripped, 1,
                                             Min2(Len(stripped), MaxContentChars)))>> >>))

\* The half of C22 that is about generic documents: the content of the
\* passage of a generic document is within the bound.
GenericContentBounded ==
    \A i \in 1..Min2(Len(compact), Len(pk_docs)) :
        ~TableRecord(pk_docs[i]) => Len(compact[i].content) <= GenericContentBound

\* A generic document whose stripped content is longer than the cut has
\* been packed.
LongGenericPacked ==
    /\ pk_pc = "done"
    /\ Len(pk_docs) >= 1
    /\ ~TableRecord(pk_docs[1])
    /\ Len(Or(Get(pk_docs[1], Key.content, JNull), JStr(<<>>)).s) > MaxContentChars + 2
    /\ Len(compact[1].content) = GenericContentBound

\* The objective of a selection step for position i, given the positions
\* selected before the step.
Objective(i, sel) == IF sel = <<>> THEN sim_to_query(i) ELSE score(i, sel)

\* C23: every selected position was, at its step, a position not selected
\* before that has the maximum of the step's objective (the similarity to
\* the query for the first pick, lambda * sim(i, query) - (1 - lambda) *
\* max similarity to a selected record for a later pick), and of the
\* positions that share the maximum it is the lowest.
C23_EachPickMaximizesObjective ==
    \A k \in 1..Len(selected) :
        LET before == SubSeq(selected, 1, k - 1)
            candidates == (1..Len(docs)) \ Range(before)
        IN  /\ selected[k] \in candidates
            /\ \A i \in candidates :
                  /\ Objective(i, before) <= Objective(selected[k], before)
                  /\ Objective(i, before) = Objective(selected[k], before)
                        => selected[k] <= i

\* A finished call with lambda strictly between 0 and 1 over three records:
\* two positions shared the maximum at the first pick, two positions shared
\* the maximum at the second pick, and the order differs from the input's.
C23_Witness ==
    /\ rk_pc = "done"
    /\ lambda_mult \notin {0, LambdaDen}
    /\ Len(docs) = 3
    /\ Len(selected) = 3
    /\ selected # <<1, 2, 3>>
    /\ \E i \in 1..3 : i # selected[1] /\ sim_to_query(i) = sim_to_query(selected[1])
    /\ score(selected[2], <<selected[1]>>) = score(selected[3], <<selected[1]>>)

\* The value of a candidate text: what it parses to, None (JNull) when there
\* is no candidate (<<>>) or it is not parseable JSON.
CandidateValue(s) ==
    IF s # <<>> /\ json_loads(s).ok THEN json_loads(s).val ELSE JNull

\* The candidate the extraction order of C24 chooses in a text: the fenced
\* block with a brace-delimited object when there is one, otherwise the
\* balanced span counted from the first opening brace, <<>> when neither.
ChosenCandidate(s) ==
    IF FencedBlock(s) # <<>> THEN FencedBlock(s)
    ELSE IF FindBrace(s) = 0 THEN <<>>
    ELSE BalancedFrom(s, FindBrace(s), FindBrace(s), 0)

\* C24 as stated: the plan is decided by the candidate that the extraction
\* order chooses in the model's output: the fenced block whenever one is
\* present, otherwise the first balanced brace span; planning fails when
\* the chosen candidate is not parseable JSON or there is no candidate.
C24_PlanFromChosenCandidate ==
    pl_pc \in {"planned", "search", "done"} =>
        plan = Validate(CandidateValue(ChosenCandidate(Strip(out_str))))

\* C24, amended: the whole stripped output is parsed first and its value is
\* used when that succeeds; only when it fails is a candidate extracted, in
\* the fixed order (fenced block, otherwise first balanced brace span), and
\* the parse gives None when the chosen candidate is not parseable JSON or
\* there is no candidate.
C24_DirectParseThenChosenCandidate ==
    pl_pc \in {"validate", "planned", "search", "done"} =>
        LET stripped == Strip(out_str) IN
        IF json_loads(stripped).ok
        THEN parsed = json_loads(stripped).val
        ELSE parsed = CandidateValue(ChosenCandidate(stripped))

\* An output that is not JSON as a whole, with a fenced block that parses
\* to a mapping while the balanced span from the first brace is another
\* text, which does not parse: the fenced block was used.
C24_Witness ==
    /\ pl_pc = "done"
    /\ gen_wrap \in FencedWraps
    /\ ~json_loads(Strip(out_str)).ok
    /\ FencedBlock(Strip(out_str)) # <<>>
    /\ ExtractBalancedOnly(Strip(out_str)) # FencedBlock(Strip(out_str))
    /\ ~json_loads(ExtractBalancedOnly(Strip(out_str))).ok
    /\ parsed.t = "obj"
    /\ parsed = gen_value

\* The end-of-stream marker is among the lines read from the response.
DoneRead == \E k \in 1..Len(produced) : produced[k].kind = "done"

\* The stream of the response is over: it ended, it broke, or it was closed
\* for a caller that is gone.
StreamOver == ch_pc \in {"done", "broken", "closed"}

\* C25: once the end-of-stream marker is read the stream has ended: the
\* marker is the last line read, the connection is closed, the end is
\* logged and nothing waits to be delivered; after the end nothing more is
\* read or delivered; and a stream that has started is over at some time,
\* the Generation Service sending the marker or closing the response after
\* finitely many lines.
C25_DoneEndsStream ==
    /\ [](DoneRead =>
            /\ produced[Len(produced)].kind = "done"
            /\ \A k \in 1..(Len(produced) - 1) : produced[k].kind # "done"
            /\ ch_pc = "done"
            /\ gen_conn = "closed"
            /\ stream_end_logged
            /\ pending = <<>>)
    /\ [][ch_pc = "done" =>
            (ch_pc' = "done" /\ produced' = produced /\ delivered' = delivered)]_vars
    /\ (ch_pc = "reading" ~> StreamOver)

\* The marker was read after two chunks, and both fragments were delivered.
C25_Witness ==
    /\ ch_pc = "done"
    /\ produced = <<Event("chunk", <<"a">>), Event("chunk", <<"b", "c">>),
                    Event("done", <<>>)>>
    /\ delivered = <<JStr(<<"a">>), JStr(<<"b", "c">>)>>

\* The response has no more lines although no marker was read: the stream
\* has ended all the same.
EndsWithoutMarker == ch_pc = "done" /\ ~DoneRead /\ Len(produced) < MaxLines

----------------------------------------------------------------------------
(* prompts.py: _format_history and the user turn of build_answer_prompt *)

\* Bound of the conversation: the turns of the history.
MaxTurns == 3

\* _format_history's max_chars, which build_answer_prompt leaves at its
\* default.
HistoryMaxChars == 2000

\* The keys of a turn.
TurnKey == [ role |-> <<"r", "o", "l", "e">>, content |-> <<"c", "o", "n", "t", "e", "n", "t">> ]

\* The turns of a conversation: with a role or without, the content None,
\* a short text with blanks around it, a text of half of max_chars, and a
\* text that makes a line of max_chars characters exactly.
HistoryTurns ==
    LET Long(n) == [i \in 1..n |-> "x"]
        roles == { <<>>, << <<TurnKey.role, JStr(<<"b", "o", "t">>)>> >> }
        contents == { JNull, JStr(<<" ", "a", " ">>),
                      JStr(Long(HistoryMaxChars \div 2)),
                      JStr(Long(HistoryMaxChars - 6)) }
    IN  { JObj(r \o << <<TurnKey.content, c>> >>) : r \in roles, c \in contents }

\* f"{role}: {content}" for role = m.get("role", "user") and
\* content = (m.get("content") or "").strip()
HistoryLine(m) ==
    PyStr(Get(m, TurnKey.role, JStr(<<"u", "s", "e", "r">>))) \o <<":", " ">>
        \o Strip(Or(Get(m, TurnKey.content, JNull), JStr(<<>>)).s)

\* sum(len(x) for x in lines)
RECURSIVE LinesLen(_)
LinesLen(lines) ==
    IF lines = <<>> THEN 0 ELSE Len(Head(lines)) + LinesLen(Tail(lines))

\* Variant of Exceeds: `>= max_chars`.
ExceedsOrReaches(lines, max_chars) == LinesLen(lines) >= max_chars

\* if sum(len(x) for x in lines) > max_chars: break
Exceeds(lines, max_chars) == LinesLen(lines) > max_chars

\* Variant of UserTurn: the conversation block is always there.
UserTurnAlwaysHistory(query, hist, context_str) ==
    <<"Q", "u", "e", "s", "t", "i", "o", "n", ":", " ">> \o query \o <<"\n", "\n">>
        \o <<"C", "o", "n", "v", "e", "r", "s", "a", "t", "i", "o", "n", " ", "s", "o", " ", "f", "a", "r", ":", "\n">> \o hist \o <<"\n", "\n">>
        \o <<"C", "o", "n", "t", "e", "x", "t", ":", "\n">> \o context_str \o <<"\n", "\n", "P", "r", "o", "v", "i", "d", "e", " ", "a", " ", "h", "e", "l", "p", "f", "u", "l", " ", "a", "n", "s", "w", "e", "r", ".">>

\* Lines 30-34: the content of the user message.
UserTurn(query, hist, context_str) ==
    <<"Q", "u", "e", "s", "t", "i", "o", "n", ":", " ">> \o query \o <<"\n", "\n">>
        \o (IF hist # <<>>
            THEN <<"C", "o", "n", "v", "e", "r", "s", "a", "t", "i", "o", "n", " ", "s", "o", " ", "f", "a", "r", ":", "\n">> \o hist \o <<"\n", "\n">>
            ELSE <<>>)
        \o <<"C", "o", "n", "t", "e", "x", "t", ":", "\n">> \o context_str \o <<"\n", "\n", "P", "r", "o", "v", "i", "d", "e", " ", "a", " ", "h", "e", "l", "p", "f", "u", "l", " ", "a", "n", "s", "w", "e", "r", ".">>

\* build_answer_prompt(query, passages, history) calls
\* _format_history(history or []).
HistoryInit ==
    /\ hs_pc = "loop"
    /\ history \in SeqsUpTo(HistoryTurns, MaxTurns)
    /\ hs_i = 0
    /\ hs_lines = <<>>
    /\ history_str = <<>>
    /\ user_turn = <<>>

HistoryIdle ==
    /\ hs_pc = "idle"
    /\ history = <<>>
    /\ hs_i = 0
    /\ hs_lines = <<>>
    /\ history_str = <<>>
    /\ user_turn = <<>>

\* Lines 6-11: one turn of the loop: the line is appended, then the sum is
\* compared with max_chars.
HistoryStep ==
    /\ hs_pc = "loop"
    /\ hs_i < Len(history)
    /\ hs_lines' = Append(hs_lines, HistoryLine(history[hs_i + 1]))
    /\ hs_i' = hs_i + 1
    /\ hs_pc' = IF Exceeds(hs_lines', HistoryMaxChars) THEN "return" ELSE "loop"
    /\ UNCHANGED <<history, history_str, user_turn>>
    /\ UNCHANGED otherThanHistory

\* The loop is over, by exhaustion or by break; line 12 returns
\* "\n".join(lines) and build_answer_prompt (lines 29-38) makes the user
\* message of a question "q" and no passage.
HistoryReturn ==
    /\ \/ hs_pc = "return"
       \/ hs_pc = "loop" /\ hs_i = Len(history)
    /\ history_str' = JoinTexts(hs_lines, <<"\n">>)
    /\ user_turn' = UserTurn(<<"q">>, history_str', <<>>)
    /\ hs_pc' = "done"
    /\ UNCHANGED <<history, hs_i, hs_lines>>
    /\ UNCHANGED otherThanHistory

HistoryNext ==
    \/ HistoryStep
    \/ HistoryReturn

\* The lines of all the turns of the history.
AllLines == [k \in 1..Len(history) |-> HistoryLine(history[k])]

\* The number of turns that are serialized: up to the first turn at which
\* the lines so far are longer in sum than max_chars, that turn included;
\* all of them when there is no such turn.
TurnsKept ==
    LET over == { k \in 1..Len(history) :
                    LinesLen(SubSeq(AllLines, 1, k)) > HistoryMaxChars }
    IN  IF over = {} THEN Len(history) ELSE SetMin(over)

\* C28: _format_history returns the lines of a prefix of the history in the
\* order of the turns, joined by newlines: the prefix ends with the first
\* turn at which the length of the lines so far exceeds max_chars, which is
\* included, and the later turns are dropped; the user message has the
\* conversation block, with that text, only when the text is not empty.
C28_HistoryPrefixThroughFirstExcess ==
    hs_pc = "done" =>
        /\ history_str = JoinTexts(SubSeq(AllLines, 1, TurnsKept), <<"\n">>)
        /\ user_turn =
              <<"Q", "u", "e", "s", "t", "i", "o", "n", ":", " ">> \o <<"q">> \o <<"\n", "\n">>
                \o (IF history_str = <<>> THEN <<>>
                    ELSE <<"C", "o", "n", "v", "e", "r", "s", "a", "t", "i", "o", "n", " ", "s", "o", " ", "f", "a", "r", ":", "\n">> \o history_str \o <<"\n", "\n">>)
                \o <<"C", "o", "n", "t", "e", "x", "t", ":", "\n">> \o <<"\n", "\n", "P", "r", "o", "v", "i", "d", "e", " ", "a", " ", "h", "e", "l", "p", "f", "u", "l", " ", "a", "n", "s", "w", "e", "r", ".">>

\* A history of three turns: the first makes a line of max_chars characters
\* exactly and the loop goes on, the second is the first that exceeds and
\* is included, the third is dropped; the text is longer than max_chars.
C28_Witness ==
    /\ hs_pc = "done"
    /\ Len(history) = 3
    /\ Len(AllLines[1]) = HistoryMaxChars
    /\ TurnsKept = 2
    /\ Len(hs_lines) = 2
    /\ Len(history_str) > HistoryMaxChars

\* A call without history: the user message has no conversation block.
NoHistoryNoBlock ==
    /\ hs_pc = "done"
    /\ history = <<>>
    /\ user_turn = UserTurn(<<"q">>, <<>>, <<>>)
    /\ Len(user_turn) < Len(UserTurnAlwaysHistory(<<"q">>, <<>>, <<>>))

----------------------------------------------------------------------------
(* Specifications: one call of one component, the others idle *)

InitRerank == RerankInit /\ PlannerIdle /\ RetrieveIdle /\ ChatIdle /\ PackIdle /\ HistoryIdle
SpecRerank == InitRerank /\ [][RerankNext]_vars

InitPlanner == PlannerInit /\ RerankIdle /\ RetrieveIdle /\ ChatIdle /\ PackIdle /\ HistoryIdle
SpecPlanner == InitPlanner /\ [][PlannerNext]_vars

InitRetrieve == RetrieveInit /\ RerankIdle /\ PlannerIdle /\ ChatIdle /\ PackIdle /\ HistoryIdle
SpecRetrieve == InitRetrieve /\ [][RetrieveNext]_vars

InitChat == ChatInit /\ RerankIdle /\ PlannerIdle /\ RetrieveIdle /\ PackIdle /\ HistoryIdle
SpecChat == InitChat /\ [][ChatNext]_vars

\* The stream makes progress: the service answers a read (with a line, or
\* by closing the response), the response passes a yielded token on, and a
\* generator whose caller is gone is closed.
SpecChatLive ==
    /\ InitChat
    /\ [][ChatNext]_vars
    /\ WF_vars(StreamRead)
    /\ WF_vars(Deliver)
    /\ WF_vars(Close)

InitPack == PackInit /\ RerankIdle /\ PlannerIdle /\ RetrieveIdle /\ ChatIdle /\ HistoryIdle
SpecPack == InitPack /\ [][PackNext]_vars

InitPackLong == PackLongInit /\ RerankIdle /\ PlannerIdle /\ RetrieveIdle /\ ChatIdle /\ HistoryIdle
SpecPackLong == InitPackLong /\ [][PackNext]_vars

InitHistory ==
    HistoryInit /\ RerankIdle /\ PlannerIdle /\ RetrieveIdle /\ ChatIdle /\ PackIdle
SpecHistory == InitHistory /\ [][HistoryNext]_vars

====
